---- MODULE Spec2Model ----
(***************************************************************************)
(* State-machine model of the lighting-control core of ralphkuhl/Toolstation *)
(* (src/src): the patch layer (fixture_manager.py), the scene store         *)
(* (scene_manager.py) and the transmission engine (dmx_controller.py,       *)
(* dmx_sender.py).                                                          *)
(*                                                                          *)
(* Python objects that are shared by reference are modelled with an         *)
(* explicit heap: a bytearray is a heap cell, and a fixture or a scene      *)
(* holds the index of the cell it refers to.                                *)
(***************************************************************************)
EXTENDS Integers, Sequences, FiniteSets, TLC

(***************************************************************************)
(* Bounds of the model.                                                     *)
(***************************************************************************)
\* PatchedFixture objects constructed in one run (each gets a fresh uuid4).
MaxPatches == 2
\* PatchedFixture objects constructed in one run of the scene store.
MaxScenePatches == 2
\* Scene objects captured in one run.
MaxScenes == 1

MaxCallers == 2

MaxLoops == 2
\* Scenes in the scene list of the chaser.
MaxSteps == 3
\* Threads started on Chaser._run in one run.
MaxStarts == 2

\* Files in a directory that is loaded.
MaxFiles == 3

(***************************************************************************)
(* Program constants.                                                       *)
(***************************************************************************)
\* Number of channels of the universe: bytearray(512), "> 512" tests.
DMX_UNIVERSE == 512
\* Largest value a bytearray item can hold; "0 <= value <= 255" tests.
DMX_MAX_VALUE == 255
\* The first byte of every frame.
DMX_START_CODE == 0

VARIABLES
    patched_fixtures,   \* FixtureManager.patched_fixtures: id -> PatchedFixture
    heap,               \* the bytearray objects, in order of allocation
    scenes,             \* SceneManager.scenes: id -> Scene
    captured,           \* history: the byte values each scene had when captured
    last_call,          \* the last foreground call made and its outcome
    dmx_values,         \* DMXController._dmx_values: the universe buffer
    is_running,         \* DMXController.is_running
    thread_lock,        \* DMXController._thread_lock: the caller holding it, or 0
    dmx_buffer,         \* DMXSender._dmx_buffer: start code and 512 channels
    loop_pc,            \* where the thread running _dmx_send_loop stands
    temp_dmx_values_copy, \* the loop's local copy of the universe buffer
    wire,               \* the last frame written to the device (<< >>: none yet)
    blackout_fresh,     \* history: blackout() returned, no write and no frame since
    frame_follows_blackout, \* history: the last frame was the first after a blackout()
    callers,            \* the threads inside set_channel or add_fixture_to_patch: position, arguments
    last_written,       \* history: per channel, the value of the latest write
    pusher,             \* the thread inside apply_patch_to_dmx_controller: its locals
    whole_states,       \* history: the universe buffers between two pushes (SpecPush)
    instants,           \* history: the patch states since the composition began
    loops,              \* the threads started on _dmx_send_loop: position and local copy
    dmx_thread,         \* DMXController._dmx_thread: an index into loops, or 0 for None
    stopper,            \* the foreground call of stop_dmx_output or close under way
    dmx_sender,         \* DMXController.dmx_sender: "open", or "None" after close
    chaser,             \* the Chaser: is_running, thread, current_step, scene_ids
    chaser_tasks,       \* the threads started on Chaser._run: where each stands
    chaser_caller,      \* the foreground call of Chaser.stop under way
    chaser_log,         \* history: the index due and the index applied at the last step
    loader,             \* load_definitions or load_scenes: the directory, the position, the result
    dev,                \* the serial device and the call of send_dmx on it
    scene_files         \* the scenes directory: per scene id, the JSON document saved

patchVars == <<patched_fixtures, heap, scenes, captured>>

engineVars == <<dmx_values, is_running, dmx_buffer, loop_pc, temp_dmx_values_copy,
                wire, blackout_fresh, frame_follows_blackout>>

callerVars == <<thread_lock, callers, last_written>>

pushVars == <<pusher, whole_states, instants>>

\* The state of the threads around the engine and the patch.
lifeVars == <<loops, dmx_thread, stopper, dmx_sender>>

chaserVars == <<chaser, chaser_tasks, chaser_caller, chaser_log>>

\* The directory being loaded and the serial device.
auxVars == <<loader, dev, scene_files>>

showVars == <<pushVars, lifeVars, chaserVars, auxVars>>

vars == <<patched_fixtures, heap, scenes, captured, last_call, dmx_values, is_running,
          thread_lock, dmx_buffer, loop_pc, temp_dmx_values_copy, wire, blackout_fresh,
          frame_follows_blackout, callers, last_written, pusher, whole_states,
          instants, loops, dmx_thread, stopper, dmx_sender, chaser, chaser_tasks,
          chaser_caller, chaser_log, loader, dev, scene_files>>

(***************************************************************************)
(* Small helpers.                                                           *)
(***************************************************************************)
\* A call as last_call records it: the operation, how it ended, and the
\* identifier and the number it was given ("" and 0 when it takes none).
Call(op, outcome, ident, arg) ==
    [op |-> op, outcome |-> outcome, ident |-> ident, arg |-> arg]

\* Python's 0-based s[i] on a sequence.
At(s, i) == s[i + 1]

\* Python's 0-based s[i] = v.
SetAt(s, i, v) == [s EXCEPT ![i + 1] = v]

(***************************************************************************)
(* The fixture definition catalog, as load_definitions leaves it: the       *)
(* definitions in insertion order, each under its file path.               *)
(***************************************************************************)
fixture_directory == "/fx"

FixtureChannel(offset, default) ==
    [dmx_channel_offset |-> offset, default_value |-> default]

fixture_definitions ==
    << [filepath |-> "/fx/par4.json", name |-> "LED PAR", manufacturer |-> "Acme",
        total_channels |-> 4,
        channels |-> << FixtureChannel(0, 10), FixtureChannel(1, 0),
                        FixtureChannel(2, 0), FixtureChannel(3, 0) >>],
       [filepath |-> "/fx/dim3.json", name |-> "Dimmer Bank", manufacturer |-> "Unknown",
        total_channels |-> 3,
        channels |-> << >>],
       [filepath |-> "/fx/spot2.json", name |-> "Spot", manufacturer |-> "Acme",
        total_channels |-> 2,
        channels |-> << FixtureChannel(1, 20), FixtureChannel(0, 0) >>],
       [filepath |-> "/fx/none.json", name |-> "Empty", manufacturer |-> "Acme",
        total_channels |-> 0,
        channels |-> << >>],
       [filepath |-> "/fx/alias.json", name |-> "Acme - Spot", manufacturer |-> "Other",
        total_channels |-> 1,
        channels |-> << >>],
       [filepath |-> "/fx/named.json", name |-> "spot2.json", manufacturer |-> "Other",
        total_channels |-> 1,
        channels |-> << >>] >>

DefinitionKeys == {fixture_definitions[i].filepath : i \in DOMAIN fixture_definitions}

\* str.lower() on the strings of the model.
Lower(s) ==
    CASE s = "LED PAR" -> "led par"
      [] s = "Dimmer Bank" -> "dimmer bank"
      [] s = "Spot" -> "spot"
      [] s = "SPOT" -> "spot"
      [] s = "Empty" -> "empty"
      [] s = "Acme - Empty" -> "acme - empty"
      [] s = "Acme - LED PAR" -> "acme - led par"
      [] s = "Acme - Spot" -> "acme - spot"
      [] s = "Unknown - Dimmer Bank" -> "unknown - dimmer bank"
      [] s = "Other - Acme - Spot" -> "other - acme - spot"
      [] s = "Other - spot2.json" -> "other - spot2.json"
      [] OTHER -> s

\* os.path.normpath on the strings of the model.
NormPath(p) ==
    CASE p = "/fx/./par4.json" -> "/fx/par4.json"
      [] p = "/fx//fx/./par4.json" -> "/fx/fx/par4.json"
      [] OTHER -> p

IsAbs(p) == p \in {"/fx/par4.json", "/fx/./par4.json", "/fx/dim3.json",
                   "/fx/spot2.json", "/fx/none.json", "/fx/alias.json", "/fx/named.json"}

\* os.path.join(a, b): an absolute b discards a.
PathJoin(a, b) == IF IsAbs(b) THEN b ELSE a \o "/" \o b

\* The dict self.fixture_definitions: the definition stored under each key.
DefinitionsByKey ==
    [key \in DefinitionKeys |->
        fixture_definitions[CHOOSE i \in DOMAIN fixture_definitions :
                                fixture_definitions[i].filepath = key]]

\* self.fixture_definitions[key].
DefinitionAt(key) == DefinitionsByKey[key]

\* The first definition, in dict order, among those at the positions hits;
\* "None" if there is none.
FirstMatching(hits) ==
    IF hits = {} THEN "None"
    ELSE fixture_definitions[CHOOSE i \in hits : \A j \in hits : i <= j].filepath

\* A lookup that tries the composite "manufacturer - name" before the name.
get_definition_by_identity_CompositeFirst(identifier) ==
    LET by_name ==
            FirstMatching({i \in DOMAIN fixture_definitions :
                Lower(fixture_definitions[i].name) = Lower(identifier)})
        by_composite ==
            FirstMatching({i \in DOMAIN fixture_definitions :
                Lower(fixture_definitions[i].manufacturer \o " - "
                      \o fixture_definitions[i].name) = Lower(identifier)})
    IN  IF NormPath(identifier) \in DefinitionKeys THEN NormPath(identifier)
        ELSE IF NormPath(PathJoin(fixture_directory, identifier)) \in DefinitionKeys
             THEN NormPath(PathJoin(fixture_directory, identifier))
        ELSE IF by_composite # "None" THEN by_composite
        ELSE by_name

\* FixtureManager.get_definition_by_identity: the key of the definition found,
\* or "None".
get_definition_by_identity(identifier) ==
    LET norm_identifier_path == NormPath(identifier)
        norm_potential_path == NormPath(PathJoin(fixture_directory, identifier))
        by_name ==
            FirstMatching({i \in DOMAIN fixture_definitions :
                Lower(fixture_definitions[i].name) = Lower(identifier)})
        by_composite ==
            FirstMatching({i \in DOMAIN fixture_definitions :
                Lower(fixture_definitions[i].manufacturer \o " - "
                      \o fixture_definitions[i].name) = Lower(identifier)})
    IN  IF norm_identifier_path \in DefinitionKeys THEN norm_identifier_path
        ELSE IF norm_potential_path \in DefinitionKeys THEN norm_potential_path
        ELSE IF by_name # "None" THEN by_name
        ELSE by_composite

\* The identifiers the callers of the model pass to add_fixture_to_patch.
Identifiers ==
    {"/fx/./par4.json", "spot2.json", "dimmer bank", "Acme - Empty", "nope.json", "Spot",
     "acme - spot", "/fx/dim3.json"}

\* get_definition_by_identity on each of them: the catalog does not change
\* after load_definitions, so neither does the answer.
ResolvedKeys == [identifier \in Identifiers |-> get_definition_by_identity(identifier)]

(***************************************************************************)
(* PatchedFixture.                                                          *)
(***************************************************************************)
\* StartAddressValid without its lower bound.
StartAddressValid_NoLowerBound(definition, start_address) ==
    start_address <= (513 - definition.total_channels)

\* PatchedFixture.__init__, the address test: whether it raises ValueError.
StartAddressValid(definition, start_address) ==
    1 <= start_address /\ start_address <= (513 - definition.total_channels)

\* PatchedFixture.__init__, the seeding loop: whether channel i is given the
\* default of the i-th channel entry.
Seeded(definition, i) == i < Len(definition.channels) /\ i < definition.total_channels

\* Whether every default the seeding loop stores fits a bytearray item; the
\* assignment raises ValueError otherwise.
DefaultsFit(definition) ==
    \A i \in 0..(definition.total_channels - 1) :
        Seeded(definition, i) =>
            At(definition.channels, i).default_value \in 0..DMX_MAX_VALUE

\* PatchedFixture.__init__, the seeding of channel_values: the new bytearray.
InitialChannelValues(definition) ==
    [k \in 1..definition.total_channels |->
        IF Seeded(definition, k - 1)
        THEN At(definition.channels, k - 1).default_value
        ELSE 0]

\* The channel values a live fixture reads: the content of its bytearray.
ChannelValues(id) == heap[patched_fixtures[id].channel_values]

TotalChannels(pf) == DefinitionAt(pf.definition).total_channels

\* The last address of a fixture's range.
EndAddress(pf) == pf.start_address + TotalChannels(pf) - 1

(***************************************************************************)
(* FixtureManager.add_fixture_to_patch.                                     *)
(***************************************************************************)
\* AddressConflict with strict comparisons: ranges sharing one end address pass.
AddressConflict_Strict(start_address, new_fixture_end_address, pf) ==
    LET pf_end_address == pf.start_address + DefinitionAt(pf.definition).total_channels - 1
    IN  (start_address < pf_end_address) /\ (new_fixture_end_address > pf.start_address)

\* AddressConflict testing only the start of the requested range.
AddressConflict_StartOnly(start_address, new_fixture_end_address, pf) ==
    LET pf_end_address == pf.start_address + DefinitionAt(pf.definition).total_channels - 1
    IN  (start_address <= pf_end_address) /\ (start_address >= pf.start_address)

\* The test of the loop over the live fixtures: the requested range
\* [start_address, new_fixture_end_address] against the range of pf.
AddressConflict(start_address, new_fixture_end_address, pf) ==
    LET pf_end_address == pf.start_address + TotalChannels(pf) - 1
    IN  (start_address <= pf_end_address) /\ (new_fixture_end_address >= pf.start_address)

\* The test "would exceed DMX address 512".
ExceedsUniverse(new_fixture_end_address) == new_fixture_end_address > 512

\* The branch add_fixture_to_patch takes, named after the message it prints.
PatchOutcome(definition_identifier, start_address) ==
    LET key == ResolvedKeys[definition_identifier]
    IN  IF key = "None" THEN "definition_not_found"
        ELSE
          LET definition == DefinitionAt(key)
              new_fixture_end_address == start_address + definition.total_channels - 1
          IN  IF ExceedsUniverse(new_fixture_end_address) THEN "exceeds_512"
              ELSE IF \E id \in DOMAIN patched_fixtures :
                        AddressConflict(start_address, new_fixture_end_address,
                                        patched_fixtures[id])
                   THEN "address_conflict"
              ELSE IF ~StartAddressValid(definition, start_address)
                      \/ ~DefaultsFit(definition)
                   THEN "value_error"
              ELSE "patched"

\* Registers with the instance stored before the constructor's tests.
Registers_BeforeValidation(outcome) == outcome \in {"patched", "value_error"}

\* Whether the call stores a new instance in patched_fixtures.
Registers(outcome) == outcome = "patched"

\* uuid.uuid4(): an id no fixture has had before.
NewFixtureId == Len(heap) + 1

add_fixture_to_patch(definition_identifier, start_address) ==
    /\ LET outcome == PatchOutcome(definition_identifier, start_address)
           key == ResolvedKeys[definition_identifier]
       IN  /\ last_call' = Call("add_fixture_to_patch", outcome, definition_identifier, start_address)
           /\ IF Registers(outcome)
              THEN /\ heap' = Append(heap, InitialChannelValues(DefinitionAt(key)))
                   /\ patched_fixtures' =
                        (NewFixtureId :> [definition |-> key,
                                          start_address |-> start_address,
                                          channel_values |-> Len(heap) + 1])
                        @@ patched_fixtures
              ELSE UNCHANGED <<heap, patched_fixtures>>
    /\ UNCHANGED <<scenes, captured, engineVars, callerVars, showVars>>

(***************************************************************************)
(* The 512 bytes the patch stands for.                                      *)
(***************************************************************************)
\* What apply_patch_to_dmx_controller composes when nothing else runs: each
\* address holds the value of the last fixture, in dict order, that covers it,
\* and 0 if none does.
ComposedState(fixtures, bytearrays) ==
    [k \in 1..512 |->
        LET covering == {id \in DOMAIN fixtures :
                            /\ fixtures[id].start_address <= k
                            /\ k <= EndAddress(fixtures[id])}
        IN  IF covering = {} THEN 0
            ELSE LET id == CHOOSE c \in covering : \A other \in covering : other <= c
                 IN  At(bytearrays[fixtures[id].channel_values],
                        k - fixtures[id].start_address)]

\* History: while a composition is under way, the patch state reached by a step
\* of another thread is recorded.
Observed(fixtures, bytearrays) ==
    IF pusher.pc = "compose"
    THEN instants \cup {ComposedState(fixtures, bytearrays)}
    ELSE instants

(***************************************************************************)
(* FixtureManager.remove_fixture_from_patch.                                *)
(***************************************************************************)
\* A pop that empties the dict.
WithoutFixture_All(fixture_id) == [id \in {} |-> patched_fixtures[id]]

\* dict.pop(fixture_id).
WithoutFixture(fixture_id) ==
    [id \in DOMAIN patched_fixtures \ {fixture_id} |-> patched_fixtures[id]]

remove_fixture_from_patch(fixture_id) ==
    /\ IF fixture_id \in DOMAIN patched_fixtures
       THEN /\ patched_fixtures' = WithoutFixture(fixture_id)
            /\ last_call' = Call("remove_fixture_from_patch", "True", "", 0)
       ELSE /\ UNCHANGED patched_fixtures
            /\ last_call' = Call("remove_fixture_from_patch", "False", "", 0)
    /\ UNCHANGED <<heap, scenes, captured, engineVars, callerVars, showVars>>

(***************************************************************************)
(* PatchedFixture.set_channel_value_by_offset, on a live fixture.           *)
(***************************************************************************)
\* The two range tests: whether the call raises ValueError.
OffsetValueValid(pf, fixture_channel_offset, value) ==
    /\ 0 <= fixture_channel_offset /\ fixture_channel_offset < TotalChannels(pf)
    /\ 0 <= value /\ value <= 255

\* self.channel_values[offset] = value: the bytearray is written in place.
WriteChannelValue(pf, fixture_channel_offset, value) ==
    [heap EXCEPT ![pf.channel_values] = SetAt(@, fixture_channel_offset, value)]

set_channel_value_by_offset(id, fixture_channel_offset, value) ==
    /\ id \in DOMAIN patched_fixtures
    /\ IF OffsetValueValid(patched_fixtures[id], fixture_channel_offset, value)
       THEN /\ heap' = WriteChannelValue(patched_fixtures[id], fixture_channel_offset, value)
            /\ last_call' = Call("set_channel_value_by_offset", "ok", "", 0)
       ELSE /\ UNCHANGED heap
            /\ last_call' = Call("set_channel_value_by_offset", "ValueError", "", 0)
    /\ instants' = Observed(patched_fixtures, heap')
    /\ UNCHANGED <<patched_fixtures, scenes, captured, engineVars, callerVars, pusher,
                   whole_states, lifeVars, auxVars, chaserVars>>

(***************************************************************************)
(* SceneManager.create_scene and SceneManager.apply_scene.                  *)
(***************************************************************************)
\* The fixture_states dict create_scene builds: for each live fixture, what is
\* stored under its id.
CapturedStates ==
    [id \in DOMAIN patched_fixtures |-> patched_fixtures[id].channel_values]

\* uuid.uuid4() of Scene.__init__.
NewSceneId == Cardinality(DOMAIN scenes) + 1

\* str(uuid): the text of an id, and uuid.UUID(text), which reads it back.
UuidTexts == <<"uuid-1", "uuid-2", "uuid-3", "uuid-4", "uuid-5", "uuid-6">>

UuidStr(id) == UuidTexts[id]

UuidOf(text) == CHOOSE id \in DOMAIN UuidTexts : UuidTexts[id] = text

\* list(bytearray): the integers of the bytes, in order.
ListOfBytes(bytes) == [i \in 1..Len(bytes) |-> bytes[i]]

\* bytearray(list): each integer is kept when it is a byte; ValueError otherwise.
BytearrayOfList(list) ==
    IF \A i \in 1..Len(list) : list[i] \in 0..DMX_MAX_VALUE
    THEN [i \in 1..Len(list) |-> list[i]]
    ELSE "ValueError"

\* The name the caller of create_scene gives the scene with this id.
SceneName(id) == IF id = 1 THEN "Intro" ELSE "Scene"

\* Scene.to_dict without the fixture states: the dict comprehension is empty.
to_dict_NoStates(id, name, fixture_states) ==
    [id |-> UuidStr(id), name |-> name, fixture_states |-> << >>]

\* Scene.to_dict: the id and the keys as text, the byte arrays (read through
\* their references) as lists.
to_dict(id, name, fixture_states) ==
    [id |-> UuidStr(id), name |-> name,
     fixture_states |-> [k \in {UuidStr(f) : f \in DOMAIN fixture_states} |->
                            ListOfBytes(heap[fixture_states[UuidOf(k)]])]]

\* Scene.from_dict: the keys read back as ids, the lists as byte arrays, the
\* id of the new scene replaced by the saved one.
SceneFromDict(data) ==
    [id |-> UuidOf(data.id), name |-> data.name,
     fixture_states |-> [f \in {UuidOf(k) : k \in DOMAIN data.fixture_states} |->
                            BytearrayOfList(data.fixture_states[UuidStr(f)])]]

\* The scenes directory before any scene is saved.
NoSceneFiles == << >>

\* create_scene ends with save_scene: json.dump of to_dict into <id>.json.
create_scene ==
    /\ scenes' = (NewSceneId :> [fixture_states |-> CapturedStates]) @@ scenes
    /\ captured' = (NewSceneId :> [id \in DOMAIN patched_fixtures |-> ChannelValues(id)])
                   @@ captured
    /\ scene_files' = (NewSceneId :> to_dict(NewSceneId, SceneName(NewSceneId), CapturedStates))
                      @@ scene_files
    /\ last_call' = Call("create_scene", "ok", "", 0)
    /\ instants' = Observed(patched_fixtures, heap)
    /\ UNCHANGED <<patched_fixtures, heap, engineVars, callerVars, pusher, whole_states,
                   lifeVars, loader, dev, chaserVars>>

\* AppliedFixtures without the test that the id is the fixture's own: every
\* live fixture is given a byte array of the scene.
AppliedFixtures_AnyId(scene) ==
    [id \in DOMAIN patched_fixtures |->
        IF DOMAIN scene.fixture_states # {}
        THEN [patched_fixtures[id] EXCEPT !.channel_values =
                scene.fixture_states[CHOOSE k \in DOMAIN scene.fixture_states :
                                        \A j \in DOMAIN scene.fixture_states : k <= j]]
        ELSE patched_fixtures[id]]

\* The fixtures after the loop of apply_scene: fixture.channel_values is
\* rebound for each id of the scene that get_patched_fixture_by_id finds.
AppliedFixtures(scene) ==
    [id \in DOMAIN patched_fixtures |->
        IF id \in DOMAIN scene.fixture_states
        THEN [patched_fixtures[id] EXCEPT !.channel_values = scene.fixture_states[id]]
        ELSE patched_fixtures[id]]

apply_scene(scene_id) ==
    /\ scene_id \in DOMAIN scenes
    /\ patched_fixtures' = AppliedFixtures(scenes[scene_id])
    /\ last_call' = Call("apply_scene", "ok", "", scene_id)
    /\ instants' = Observed(patched_fixtures', heap)
    /\ UNCHANGED <<heap, scenes, captured, engineVars, callerVars, pusher, whole_states,
                   lifeVars, auxVars, chaserVars>>

(***************************************************************************)
(* DMXController: the universe buffer and its setters.                      *)
(***************************************************************************)
\* A lock that never makes its caller wait.
CanAcquire_Always(lock) == TRUE

\* threading.Lock, entered by "with self._thread_lock": only a free lock (0) is
\* acquired; the caller waits otherwise.
CanAcquire(lock) == lock = 0

\* bytearray(n): n zero bytes.
ZeroBytes(n) == [i \in 1..n |-> 0]

\* A range test that no channel passes.
ChannelValid_Never(channel) == FALSE

\* The test "1 <= channel <= 512" of the setters and getters.
ChannelValid(channel) == 1 <= channel /\ channel <= DMX_UNIVERSE

\* The test "0 <= value <= 255".
ValueValid(value) == 0 <= value /\ value <= DMX_MAX_VALUE

\* DMXController.get_channel, for a valid channel.
get_channel(channel) == At(dmx_values, channel - 1)

\* WriteChannel storing at index channel instead of channel - 1.
WriteChannel_OffByOne(buffer, channel, value) == SetAt(buffer, channel, value)

\* set_channel's assignment under the lock: self._dmx_values[channel - 1] = value.
WriteChannel(buffer, channel, value) == SetAt(buffer, channel - 1, value)

\* The 0-based position of the first value outside 0..255, Len(values) if none:
\* where the loop "for i, val in enumerate(values)" raises.
FirstInvalid(values) ==
    LET bad == {i \in 0..(Len(values) - 1) : ~ValueValid(At(values, i))}
    IN  IF bad = {} THEN Len(values)
        ELSE CHOOSE i \in bad : \A j \in bad : i <= j

\* A buffer after the loop stored values[0..n-1] at the 0-based positions
\* first, first + 1, ... (n is evaluated once, not once per position).
WrittenPrefix(buffer, first, values, n) ==
    CHOOSE written \in
        {[k \in 1..Len(buffer) |->
             IF first <= k - 1 /\ k - 1 < first + count
             THEN At(values, k - 1 - first)
             ELSE buffer[k]] : count \in {n}} : TRUE

\* The branch set_channels takes (DMXController and DMXSender test alike).
SetChannelsOutcome(start_channel, values) ==
    IF ~ChannelValid(start_channel) THEN "ValueError"
    ELSE IF values = << >> THEN "ok"
    ELSE IF start_channel + Len(values) - 1 > 512 THEN "ValueError"
    ELSE IF FirstInvalid(values) < Len(values) THEN "ValueError"
    ELSE "ok"

\* Whether set_channels reaches its loop over the values.
ReachesLoop(start_channel, values) ==
    /\ ChannelValid(start_channel)
    /\ values # << >>
    /\ ~(start_channel + Len(values) - 1 > 512)

\* DMXController.set_channels: the universe buffer when the call returns or raises.
\* The loop stores each value before it tests the next one.
ControllerSetChannels(buffer, start_channel, values) ==
    IF ReachesLoop(start_channel, values)
    THEN WrittenPrefix(buffer, start_channel - 1, values, FirstInvalid(values))
    ELSE buffer

\* DMXController.clear_all_channels: for i in range(512): self._dmx_values[i] = 0.
ClearAllChannels(buffer) == [k \in 1..Len(buffer) |-> IF k - 1 < 512 THEN 0 ELSE buffer[k]]

set_channel(channel, value) ==
    /\ IF ChannelValid(channel) /\ ValueValid(value)
       THEN /\ dmx_values' = WriteChannel(dmx_values, channel, value)
            /\ last_call' = Call("set_channel", "ok", "", 0)
            /\ blackout_fresh' = FALSE
       ELSE /\ last_call' = Call("set_channel", "ValueError", "", 0)
            /\ UNCHANGED <<dmx_values, blackout_fresh>>
    /\ UNCHANGED <<is_running, dmx_buffer, loop_pc, temp_dmx_values_copy, wire,
                   frame_follows_blackout, patchVars, callerVars, showVars>>

set_channels(start_channel, values) ==
    /\ dmx_values' = ControllerSetChannels(dmx_values, start_channel, values)
    /\ last_call' = Call("set_channels", SetChannelsOutcome(start_channel, values), "", 0)
    /\ blackout_fresh' = (blackout_fresh /\ dmx_values' = dmx_values)
    /\ UNCHANGED <<is_running, dmx_buffer, loop_pc, temp_dmx_values_copy, wire,
                   frame_follows_blackout, patchVars, callerVars, showVars>>

\* A blackout that also zeroes the channel values of every fixture.
blackout_AlsoFixtures ==
    /\ dmx_values' = ClearAllChannels(dmx_values)
    /\ heap' = [i \in DOMAIN heap |-> [k \in DOMAIN heap[i] |-> 0]]
    /\ last_call' = Call("blackout", "ok", "", 0)
    /\ blackout_fresh' = TRUE
    /\ UNCHANGED <<is_running, dmx_buffer, loop_pc, temp_dmx_values_copy, wire,
                   frame_follows_blackout, patched_fixtures, scenes, captured, callerVars,
                   showVars>>

\* DMXController.blackout: clear_all_channels under the lock.
blackout ==
    /\ dmx_values' = ClearAllChannels(dmx_values)
    /\ last_call' = Call("blackout", "ok", "", 0)
    /\ blackout_fresh' = TRUE
    /\ UNCHANGED <<is_running, dmx_buffer, loop_pc, temp_dmx_values_copy, wire,
                   frame_follows_blackout, patchVars, callerVars, showVars>>

(***************************************************************************)
(* DMXSender: the frame buffer and send_dmx.                                *)
(***************************************************************************)
\* bytearray([DMX_START_CODE] + [0] * 512).
InitialDmxBuffer == <<DMX_START_CODE>> \o ZeroBytes(512)

\* A set_channels that leaves the frame buffer as it is.
SenderSetChannels_Keep(buffer, start_channel, values) == buffer

\* DMXSender.set_channels: channel c is stored at index c, after the start code.
SenderSetChannels(buffer, start_channel, values) ==
    IF ReachesLoop(start_channel, values)
    THEN WrittenPrefix(buffer, start_channel, values, FirstInvalid(values))
    ELSE buffer

\* A clear_all_channels whose range begins one index late.
SenderClearAllChannels_FromTwo(buffer) ==
    [k \in 1..Len(buffer) |-> IF 2 <= k - 1 /\ k - 1 < 513 THEN 0 ELSE buffer[k]]

\* A clear_all_channels that leaves the frame buffer as it is.
SenderClearAllChannels_Keep(buffer) == buffer

\* DMXSender.clear_all_channels: for i in range(1, 513): self._dmx_buffer[i] = 0.
SenderClearAllChannels(buffer) ==
    [k \in 1..Len(buffer) |-> IF 1 <= k - 1 /\ k - 1 < 513 THEN 0 ELSE buffer[k]]

\* The data section of a frame: the 512 bytes after the start code.
DataSection(frame) == SubSeq(frame, 2, Len(frame))

(***************************************************************************)
(* DMXController._dmx_send_loop, one step per statement that reads or       *)
(* writes shared state.  loop_pc: "while" (the loop test), "snapshot",      *)
(* "fill", "send", "sleep", "final" (the code after the loop), "done".      *)
(***************************************************************************)
\* A loop that does not look at the flag.
LoopContinues_Always(flag) == TRUE

\* The test of "while self.is_running".
LoopContinues(flag) == flag

\* while self.is_running: enter the body, or leave the loop.
LoopTest ==
    /\ loop_pc = "while"
    /\ loop_pc' = IF LoopContinues(is_running) THEN "snapshot" ELSE "final"
    /\ UNCHANGED <<dmx_values, is_running, dmx_buffer, temp_dmx_values_copy, wire,
                   blackout_fresh, frame_follows_blackout, last_call, patchVars,
                   callerVars, showVars>>

\* temp_dmx_values_copy = self.get_all_values(): a copy taken under the lock.
LoopSnapshot ==
    /\ loop_pc = "snapshot"
    /\ CanAcquire(thread_lock)
    /\ temp_dmx_values_copy' = dmx_values
    /\ loop_pc' = "fill"
    /\ UNCHANGED <<dmx_values, is_running, dmx_buffer, wire, blackout_fresh,
                   frame_follows_blackout, last_call, patchVars, callerVars, showVars>>

\* self.dmx_sender.set_channels(1, list(temp_dmx_values_copy)).
LoopFill ==
    /\ loop_pc = "fill"
    /\ dmx_buffer' = SenderSetChannels(dmx_buffer, 1, temp_dmx_values_copy)
    /\ loop_pc' = "send"
    /\ UNCHANGED <<dmx_values, is_running, temp_dmx_values_copy, wire, blackout_fresh,
                   frame_follows_blackout, last_call, patchVars, callerVars, showVars>>

\* self.dmx_sender.send_dmx(): the frame is written, or the device raises and the
\* handler sets is_running False and breaks.
LoopSend ==
    /\ loop_pc = "send"
    /\ \/ /\ wire' = dmx_buffer
          /\ frame_follows_blackout' = blackout_fresh
          /\ blackout_fresh' = FALSE
          /\ loop_pc' = "sleep"
          /\ UNCHANGED is_running
       \/ /\ is_running' = FALSE
          /\ loop_pc' = "final"
          /\ UNCHANGED <<wire, frame_follows_blackout, blackout_fresh>>
    /\ UNCHANGED <<dmx_values, dmx_buffer, temp_dmx_values_copy, last_call, patchVars,
                   callerVars, showVars>>

\* time.sleep(self.update_interval).
LoopSleep ==
    /\ loop_pc = "sleep"
    /\ loop_pc' = "while"
    /\ UNCHANGED <<dmx_values, is_running, dmx_buffer, temp_dmx_values_copy, wire,
                   blackout_fresh, frame_follows_blackout, last_call, patchVars,
                   callerVars, showVars>>

\* After the loop: clear_all_channels() and send_dmx() on the sender; an error of
\* the device is caught and the thread ends.
LoopFinal ==
    /\ loop_pc = "final"
    /\ dmx_buffer' = SenderClearAllChannels(dmx_buffer)
    /\ \/ /\ wire' = dmx_buffer'
          /\ frame_follows_blackout' = blackout_fresh
          /\ blackout_fresh' = FALSE
       \/ UNCHANGED <<wire, frame_follows_blackout, blackout_fresh>>
    /\ loop_pc' = "done"
    /\ UNCHANGED <<dmx_values, is_running, temp_dmx_values_copy, last_call, patchVars,
                   callerVars, showVars>>

(***************************************************************************)
(* The engine after DMXController(auto_start_thread=True) found its device: *)
(* the send loop runs beside one foreground caller.                         *)
(***************************************************************************)
EmptyMap == [x \in {} |-> 0]

\* The controller and the sender as their constructors leave them, no thread yet.
ConstructedEngine ==
    /\ dmx_values = ZeroBytes(512)
    /\ is_running = FALSE
    /\ dmx_buffer = InitialDmxBuffer
    /\ loop_pc = "none"
    /\ temp_dmx_values_copy = << >>
    /\ wire = << >>
    /\ blackout_fresh = FALSE
    /\ frame_follows_blackout = FALSE

NoCallers ==
    /\ thread_lock = 0
    /\ callers = EmptyMap
    /\ last_written = EmptyMap

\* No thread is inside apply_patch_to_dmx_controller.
IdlePusher == [pc |-> "idle", todo |-> << >>, desired_dmx_state |-> << >>, i |-> 0]

\* No call of stop_dmx_output or close is under way.
IdleStopper == [pc |-> "idle", closing |-> FALSE]

\* Chaser.__init__.
NewChaser(scene_ids) ==
    [is_running |-> FALSE, thread |-> 0, current_step |-> 0, scene_ids |-> scene_ids]

\* The baud rates of the device (dmx_sender.py).
DMX_BAUDRATE == 250000

BREAK_BAUDRATE == 90000

\* The device after DMXSender.open, with no call of send_dmx made on it.
NoDevice == [is_open |-> TRUE, baudrate |-> DMX_BAUDRATE, pc |-> "idle", log |-> << >>]

\* DMXSender.dev after __init__: the device configured by open(), or None when
\* open() raised (is_open FALSE; nothing was configured on it).
DeviceAfterInit(device_opens) == [NoDevice EXCEPT !.is_open = device_opens]

\* No load of a directory is modelled.
NoLoader == [kind |-> "none"]

\* History of a chaser that made no step: the next step is step 0 after a start.
NoSteps == [expected |-> 0, due |-> 0, applied |-> 0, stopped |-> FALSE]

QuietShow ==
    /\ pusher = IdlePusher
    /\ whole_states = {}
    /\ instants = {}
    /\ loops = << >>
    /\ dmx_thread = 0
    /\ stopper = IdleStopper
    /\ dmx_sender = "open"
    /\ chaser = NewChaser(<< >>)
    /\ chaser_tasks = << >>
    /\ chaser_caller = "idle"
    /\ chaser_log = NoSteps

NoShow ==
    /\ QuietShow
    /\ loader = NoLoader
    /\ scene_files = NoSceneFiles
    /\ dev = NoDevice

EmptyPatch ==
    /\ patched_fixtures = EmptyMap
    /\ heap = << >>
    /\ scenes = EmptyMap
    /\ captured = EmptyMap

EngineChannels == {0, 1, 512, 513}

EngineValues == {7, 256}

EngineStartChannels == {0, 1, 512}

EngineValueLists == {<< >>, <<7, 7>>, <<7, 256>>}

\* start_dmx_output() at the end of __init__: is_running is set and the thread
\* started.
InitEngine ==
    /\ dmx_values = ZeroBytes(512)
    /\ is_running = TRUE
    /\ dmx_buffer = InitialDmxBuffer
    /\ loop_pc = "while"
    /\ temp_dmx_values_copy = << >>
    /\ wire = << >>
    /\ blackout_fresh = FALSE
    /\ frame_follows_blackout = FALSE
    /\ NoCallers
    /\ NoShow
    /\ EmptyPatch
    /\ last_call = Call("init", "ok", "", 0)

NextEngine ==
    \/ \E c \in EngineChannels, v \in EngineValues : set_channel(c, v)
    \/ \E c \in EngineStartChannels, vs \in EngineValueLists : set_channels(c, vs)
    \/ blackout
    \/ LoopTest
    \/ LoopSnapshot
    \/ LoopFill
    \/ LoopSend
    \/ LoopSleep
    \/ LoopFinal

SpecEngine == InitEngine /\ [][NextEngine]_vars

\* The final section of _dmx_send_loop has no wait in it: a thread that left the
\* while loop runs it to its end.
SpecEngineFair == SpecEngine /\ WF_loop_pc(LoopFinal)

\* A step of the thread on _dmx_send_loop.
EngineLoopStep == LoopTest \/ LoopSnapshot \/ LoopFill \/ LoopSend \/ LoopSleep \/ LoopFinal

\* The send loop beside a caller that writes single channels and blacks out.
FollowedChannels == {1, 512}

FollowedWrites == {7}

NextFollow ==
    \/ \E c \in FollowedChannels, v \in FollowedWrites : set_channel(c, v)
    \/ blackout
    \/ LoopTest
    \/ LoopSnapshot
    \/ LoopFill
    \/ LoopSend
    \/ LoopSleep
    \/ LoopFinal

SpecFollow == InitEngine /\ [][NextFollow]_vars

\* The loop thread is scheduled again and again: the setters hold the lock for
\* the time of one write only, send_dmx returns or raises, and
\* time.sleep(self.update_interval) ends.
SpecFollowFair == SpecFollow /\ WF_vars(EngineLoopStep)

(***************************************************************************)
(* The patch layer driven by one foreground caller: patch requests over     *)
(* every kind of identifier and address, unpatch, and channel edits.        *)
(***************************************************************************)
PatchIdentifiers == {"/fx/./par4.json", "dimmer bank", "Acme - Empty", "nope.json"}

StartAddresses == {0, 1, 4, 5, 510}

EditOffsets == {0}

EditValues == {200, 256}

InitPatch ==
    /\ EmptyPatch
    /\ ConstructedEngine
    /\ NoCallers
    /\ NoShow
    /\ last_call = Call("init", "ok", "", 0)

NextPatch ==
    \/ \E ident \in PatchIdentifiers, a \in StartAddresses :
          /\ Len(heap) < MaxPatches \/ ~Registers(PatchOutcome(ident, a))
          /\ add_fixture_to_patch(ident, a)
    \/ \E id \in 1..MaxPatches : remove_fixture_from_patch(id)
    \/ \E id \in 1..MaxPatches, o \in EditOffsets, v \in EditValues :
          set_channel_value_by_offset(id, o, v)

SpecPatch == InitPatch /\ [][NextPatch]_vars

(***************************************************************************)
(* Lookup of a definition: by the patch dialog (main_ui.py:194) and inside  *)
(* add_fixture_to_patch.                                                    *)
(***************************************************************************)
\* self.fixture_manager.get_definition_by_identity(identifier), called alone.
LookupDefinition(identifier) ==
    /\ last_call' = Call("get_definition_by_identity", ResolvedKeys[identifier], identifier, 0)
    /\ UNCHANGED <<patchVars, engineVars, callerVars, showVars>>

LookupStartAddresses == {1, 100}

NextLookup ==
    \/ \E ident \in Identifiers : LookupDefinition(ident)
    \/ \E ident \in Identifiers, a \in LookupStartAddresses :
          /\ Len(heap) < MaxPatches \/ ~Registers(PatchOutcome(ident, a))
          /\ add_fixture_to_patch(ident, a)
    \/ \E id \in 1..MaxPatches : remove_fixture_from_patch(id)

SpecLookup == InitPatch /\ [][NextLookup]_vars

(***************************************************************************)
(* The scene store over a small patch: capture, edit, apply, unpatch.       *)
(***************************************************************************)
SceneIdentifiers == {"Spot"}

SceneStartAddresses == {1, 3}

SceneEditOffsets == {0}

SceneEditValues == {200}

NextScene ==
    \/ \E ident \in SceneIdentifiers, a \in SceneStartAddresses :
          /\ Len(heap) < MaxScenePatches \/ ~Registers(PatchOutcome(ident, a))
          /\ add_fixture_to_patch(ident, a)
    \/ \E id \in 1..MaxScenePatches : remove_fixture_from_patch(id)
    \/ \E id \in 1..MaxScenePatches, o \in SceneEditOffsets, v \in SceneEditValues :
          set_channel_value_by_offset(id, o, v)
    \/ /\ Cardinality(DOMAIN scenes) < MaxScenes
       /\ create_scene
    \/ \E s \in 1..MaxScenes : apply_scene(s)

SpecScene == InitPatch /\ [][NextScene]_vars

\* The same operations over fixtures of two definitions, of 2 and of 4
\* channels, with edits that the range tests reject among them.
ArrayIdentifiers == {"Spot", "/fx/./par4.json"}

ArrayStartAddresses == {1, 3}

ArrayEditOffsets == {0}

ArrayEditValues == {200, 256}

NextArrays ==
    \/ \E ident \in ArrayIdentifiers, a \in ArrayStartAddresses :
          /\ Len(heap) < MaxScenePatches \/ ~Registers(PatchOutcome(ident, a))
          /\ add_fixture_to_patch(ident, a)
    \/ \E id \in 1..MaxScenePatches : remove_fixture_from_patch(id)
    \/ \E id \in 1..MaxScenePatches, o \in ArrayEditOffsets, v \in ArrayEditValues :
          set_channel_value_by_offset(id, o, v)
    \/ /\ Cardinality(DOMAIN scenes) < MaxScenes
       /\ create_scene
    \/ \E s \in 1..MaxScenes : apply_scene(s)

SpecArrays == InitPatch /\ [][NextArrays]_vars

(***************************************************************************)
(* DMXController.set_channel called by independent threads, one step per    *)
(* statement that can interleave.  callers[t].pc: "idle" (no call under     *)
(* way), "acquire" (at "with self._thread_lock"), "write" (holding the      *)
(* lock, before the assignment), "release" (leaving the with block).        *)
(***************************************************************************)
Callers == 1..MaxCallers

ConcChannels == {0, 1, 512}

ConcValues == {7, 9, 256}

\* The two range tests at the head of set_channel: raise, or go on to the lock.
SetChannelEnter(t, channel, value) ==
    /\ callers[t].pc = "idle"
    /\ callers' = [callers EXCEPT ![t] =
                      IF ChannelValid(channel) /\ ValueValid(value)
                      THEN [pc |-> "acquire", channel |-> channel, value |-> value,
                            outcome |-> "running"]
                      ELSE [pc |-> "idle", channel |-> channel, value |-> value,
                            outcome |-> "ValueError"]]
    /\ UNCHANGED <<thread_lock, last_written, engineVars, patchVars, last_call, showVars>>

\* with self._thread_lock: blocks until the lock is free.
SetChannelAcquire(t) ==
    /\ callers[t].pc = "acquire"
    /\ CanAcquire(thread_lock)
    /\ thread_lock' = t
    /\ callers' = [callers EXCEPT ![t].pc = "write"]
    /\ UNCHANGED <<last_written, engineVars, patchVars, last_call, showVars>>

\* self._dmx_values[channel - 1] = value.
SetChannelWrite(t) ==
    /\ callers[t].pc = "write"
    /\ dmx_values' = WriteChannel(dmx_values, callers[t].channel, callers[t].value)
    /\ last_written' = (callers[t].channel :> callers[t].value) @@ last_written
    /\ callers' = [callers EXCEPT ![t].pc = "release"]
    /\ UNCHANGED <<thread_lock, is_running, dmx_buffer, loop_pc, temp_dmx_values_copy,
                   wire, blackout_fresh, frame_follows_blackout, patchVars, last_call, showVars>>

\* The end of the with block: the lock is released and the call returns.
SetChannelRelease(t) ==
    /\ callers[t].pc = "release"
    /\ thread_lock' = 0
    /\ callers' = [callers EXCEPT ![t].pc = "idle", ![t].outcome = "ok"]
    /\ UNCHANGED <<last_written, engineVars, patchVars, last_call, showVars>>

InitConc ==
    /\ EmptyPatch
    /\ ConstructedEngine
    /\ thread_lock = 0
    /\ callers = [t \in Callers |->
                     [pc |-> "idle", channel |-> 0, value |-> 0, outcome |-> "none"]]
    /\ last_written = EmptyMap
    /\ NoShow
    /\ last_call = Call("init", "ok", "", 0)

NextConc ==
    \/ \E t \in Callers, c \in ConcChannels, v \in ConcValues : SetChannelEnter(t, c, v)
    \/ \E t \in Callers : SetChannelAcquire(t)
    \/ \E t \in Callers : SetChannelWrite(t)
    \/ \E t \in Callers : SetChannelRelease(t)

SpecConc == InitConc /\ [][NextConc]_vars

(***************************************************************************)
(* FixtureManager.apply_patch_to_dmx_controller run by one thread beside    *)
(* the send loop and a thread that edits fixture channels.  pusher.pc:      *)
(* "idle", "compose" (the loop over the fixtures), "acquire" (set_channels  *)
(* at its lock), "write" (inside the loop of set_channels), "release".      *)
(***************************************************************************)
\* The id under which the pushing thread holds _thread_lock.
PusherId == MaxCallers + 1

\* PatchedFixture.get_dmx_values: absolute address -> value, up to address 512.
get_dmx_values(id) ==
    LET pf == patched_fixtures[id]
    IN  [abs_address \in {a \in {pf.start_address + i : i \in 0..(TotalChannels(pf) - 1)} :
                              ~(a > 512)} |->
            At(ChannelValues(id), abs_address - pf.start_address)]

\* desired_dmx_state after the values of one fixture were copied into it.
WithFixture(desired_dmx_state, id) ==
    LET fixture_abs_dmx_values == get_dmx_values(id)
    IN  [k \in 1..Len(desired_dmx_state) |->
            IF k \in DOMAIN fixture_abs_dmx_values /\ 1 <= k /\ k <= 512
            THEN fixture_abs_dmx_values[k]
            ELSE desired_dmx_state[k]]

\* The next fixture of "for pf in self.patched_fixtures.values()": dicts keep
\* insertion order, and ids are handed out in increasing order.
NextFixture(todo) == CHOOSE id \in todo : \A other \in todo : id <= other

\* The positions of the loop of set_channels at which the model lets other
\* threads run: after each of the first two values, and after the last.
PushStops == {1, 2, 512}

NextStop(i) == CHOOSE stop \in PushStops :
                   /\ stop > i
                   /\ \A other \in PushStops : other > i => stop <= other

\* desired_dmx_state = bytearray(512), and the loop over the fixtures begins.
PushBegin ==
    /\ pusher.pc = "idle"
    /\ pusher' = [pc |-> IF DOMAIN patched_fixtures = {} THEN "acquire" ELSE "compose",
                  todo |-> DOMAIN patched_fixtures,
                  desired_dmx_state |-> ZeroBytes(512),
                  i |-> 0]
    /\ instants' = {ComposedState(patched_fixtures, heap)}
    /\ UNCHANGED <<whole_states, patchVars, engineVars, callerVars, last_call, lifeVars, auxVars,
                   chaserVars>>

\* One iteration of the loop over the fixtures.
PushCompose ==
    /\ pusher.pc = "compose"
    /\ LET pf == NextFixture(pusher.todo)
           rest == pusher.todo \ {pf}
       IN  pusher' = [pusher EXCEPT
                         !.desired_dmx_state =
                             IF pf \in DOMAIN patched_fixtures THEN WithFixture(@, pf) ELSE @,
                         !.todo = rest,
                         !.pc = IF rest = {} THEN "acquire" ELSE "compose"]
    /\ UNCHANGED <<whole_states, instants, patchVars, engineVars, callerVars, last_call, lifeVars, auxVars,
                   chaserVars>>

\* dmx_controller.set_channels(1, list(desired_dmx_state)): its range tests pass
\* (start 1, 512 values), then "with self._thread_lock".
PushAcquire ==
    /\ pusher.pc = "acquire"
    /\ ReachesLoop(1, pusher.desired_dmx_state)
    /\ CanAcquire(thread_lock)
    /\ thread_lock' = PusherId
    /\ pusher' = [pusher EXCEPT !.pc = "write", !.i = 0]
    /\ UNCHANGED <<callers, last_written, whole_states, instants, patchVars, engineVars,
                   last_call, lifeVars, auxVars, chaserVars>>

\* Iterations pusher.i .. NextStop(pusher.i) - 1 of the loop of set_channels.
PushWrite ==
    /\ pusher.pc = "write"
    /\ LET stop == NextStop(pusher.i)
       IN  /\ dmx_values' = WrittenPrefix(dmx_values, 0, pusher.desired_dmx_state, stop)
           /\ pusher' = [pusher EXCEPT !.i = stop,
                                       !.pc = IF stop = 512 THEN "release" ELSE "write"]
    /\ blackout_fresh' = (blackout_fresh /\ dmx_values' = dmx_values)
    /\ UNCHANGED <<is_running, dmx_buffer, loop_pc, temp_dmx_values_copy, wire,
                   frame_follows_blackout, whole_states, instants, patchVars, callerVars,
                   last_call, lifeVars, auxVars, chaserVars>>

\* The end of the with block; set_channels and apply_patch_to_dmx_controller return.
PushRelease ==
    /\ pusher.pc = "release"
    /\ thread_lock' = 0
    /\ pusher' = IdlePusher
    /\ whole_states' = whole_states \cup {dmx_values}
    /\ instants' = {}
    /\ last_call' = Call("apply_patch_to_dmx_controller", "ok", "", 0)
    /\ UNCHANGED <<callers, last_written, patchVars, engineVars, lifeVars, auxVars, chaserVars>>

\* One Spot patched at address 1.
PatchedSpot ==
    /\ patched_fixtures = (1 :> [definition |-> "/fx/spot2.json", start_address |-> 1,
                                 channel_values |-> 1])
    /\ heap = <<InitialChannelValues(DefinitionAt("/fx/spot2.json"))>>
    /\ scenes = EmptyMap
    /\ captured = EmptyMap

PushEditOffsets == {0, 1}

PushEditValues == {200}

InitPush ==
    /\ PatchedSpot
    /\ dmx_values = ZeroBytes(512)
    /\ is_running = TRUE
    /\ dmx_buffer = InitialDmxBuffer
    /\ loop_pc = "while"
    /\ temp_dmx_values_copy = << >>
    /\ wire = << >>
    /\ blackout_fresh = FALSE
    /\ frame_follows_blackout = FALSE
    /\ NoCallers
    /\ pusher = IdlePusher
    /\ whole_states = {dmx_values}
    /\ instants = {}
    /\ loops = << >>
    /\ dmx_thread = 0
    /\ stopper = IdleStopper
    /\ dmx_sender = "open"
    /\ chaser = NewChaser(<< >>)
    /\ chaser_tasks = << >>
    /\ chaser_caller = "idle"
    /\ chaser_log = NoSteps
    /\ loader = NoLoader
    /\ scene_files = NoSceneFiles
    /\ dev = NoDevice
    /\ last_call = Call("init", "ok", "", 0)

NextPush ==
    \/ PushBegin
    \/ PushCompose
    \/ PushAcquire
    \/ PushWrite
    \/ PushRelease
    \/ \E o \in PushEditOffsets, v \in PushEditValues : set_channel_value_by_offset(1, o, v)
    \/ LoopTest
    \/ LoopSnapshot
    \/ LoopFill
    \/ LoopSend
    \/ LoopSleep
    \/ LoopFinal

SpecPush == InitPush /\ [][NextPush]_vars

(***************************************************************************)
(* A capture, a tick of a chaser (apply_scene, then                         *)
(* apply_patch_to_dmx_controller) and manual edits, each on its own thread, *)
(* over two patched fixtures.  No lock is taken around them in the code.    *)
(***************************************************************************)
\* Two Spots patched at addresses 1 and 3.
PatchedPair ==
    /\ patched_fixtures =
           (1 :> [definition |-> "/fx/spot2.json", start_address |-> 1, channel_values |-> 1])
        @@ (2 :> [definition |-> "/fx/spot2.json", start_address |-> 3, channel_values |-> 2])
    /\ heap = <<InitialChannelValues(DefinitionAt("/fx/spot2.json")),
                InitialChannelValues(DefinitionAt("/fx/spot2.json"))>>
    /\ scenes = EmptyMap
    /\ captured = EmptyMap

TickEditOffsets == {0}

TickEditValues == {200}

InitTick ==
    /\ PatchedPair
    /\ ConstructedEngine
    /\ NoCallers
    /\ NoShow
    /\ last_call = Call("init", "ok", "", 0)

NextTick ==
    \/ /\ Cardinality(DOMAIN scenes) < MaxScenes
       /\ create_scene
    \/ /\ pusher.pc = "idle"
       /\ \E s \in 1..MaxScenes : apply_scene(s)
    \/ PushBegin
    \/ PushCompose
    \/ PushAcquire
    \/ PushWrite
    \/ PushRelease
    \/ \E id \in DOMAIN patched_fixtures, o \in TickEditOffsets, v \in TickEditValues :
          set_channel_value_by_offset(id, o, v)

SpecTick == InitTick /\ [][NextTick]_vars

(***************************************************************************)
(* add_fixture_to_patch called from two threads.  The method takes no lock: *)
(* a thread can be preempted between the loop that tests the live fixtures  *)
(* and the statement that stores the new one.  callers[t].pc: "idle", or    *)
(* "register" (the tests passed, the instance is not stored yet).           *)
(***************************************************************************)
PatchThreads == {1, 2}

RequestIdentifiers == {"Spot"}

RequestStartAddresses == {1, 2, 3}

\* No call under way, and what the last call of the thread returned.
IdleRequest(outcome, definition_identifier, start_address) ==
    [pc |-> "idle", outcome |-> outcome, definition_identifier |-> definition_identifier,
     start_address |-> start_address]

\* The threads that passed the tests and have not stored their fixture.
Registering == {t \in PatchThreads : callers[t].pc = "register"}

\* add_fixture_to_patch from the lookup to the end of the loop over the live
\* fixtures: the call returns None, or goes on to create the instance.
PatchRequestTest(t, definition_identifier, start_address) ==
    /\ callers[t].pc = "idle"
    /\ LET outcome == PatchOutcome(definition_identifier, start_address)
       IN  IF outcome = "patched"
           THEN /\ callers' = [callers EXCEPT ![t] =
                                  [pc |-> "register", outcome |-> "none",
                                   definition_identifier |-> definition_identifier,
                                   start_address |-> start_address]]
                /\ UNCHANGED last_call
           ELSE /\ callers' = [callers EXCEPT ![t] =
                                  IdleRequest(outcome, definition_identifier, start_address)]
                /\ last_call' = Call("add_fixture_to_patch", outcome, definition_identifier,
                                     start_address)
    /\ UNCHANGED <<patchVars, engineVars, thread_lock, last_written, showVars>>

\* PatchedFixture(...) and self.patched_fixtures[patched_fixture.id] = patched_fixture.
PatchRequestRegister(t) ==
    /\ callers[t].pc = "register"
    /\ LET key == ResolvedKeys[callers[t].definition_identifier]
       IN  /\ heap' = Append(heap, InitialChannelValues(DefinitionAt(key)))
           /\ patched_fixtures' =
                  (NewFixtureId :> [definition |-> key,
                                    start_address |-> callers[t].start_address,
                                    channel_values |-> Len(heap) + 1])
                  @@ patched_fixtures
    /\ callers' = [callers EXCEPT ![t] =
                      IdleRequest("patched", callers[t].definition_identifier,
                                  callers[t].start_address)]
    /\ last_call' = Call("add_fixture_to_patch", "patched", callers[t].definition_identifier,
                         callers[t].start_address)
    /\ UNCHANGED <<scenes, captured, engineVars, thread_lock, last_written, showVars>>

InitRequests ==
    /\ EmptyPatch
    /\ ConstructedEngine
    /\ thread_lock = 0
    /\ callers = [t \in PatchThreads |-> IdleRequest("none", "", 0)]
    /\ last_written = EmptyMap
    /\ NoShow
    /\ last_call = Call("init", "ok", "", 0)

NextRequests ==
    \/ \E t \in PatchThreads, ident \in RequestIdentifiers, a \in RequestStartAddresses :
          /\ Len(heap) + Cardinality(Registering) < MaxPatches
                \/ PatchOutcome(ident, a) # "patched"
          /\ PatchRequestTest(t, ident, a)
    \/ \E t \in PatchThreads : PatchRequestRegister(t)
    \/ \E id \in 1..MaxPatches : remove_fixture_from_patch(id)

SpecRequests == InitRequests /\ [][NextRequests]_vars

(***************************************************************************)
(* Two threads that each edit a fixture and then push the patch: the UI     *)
(* thread in App.on_fixture_channel_change, followed step by step, and the  *)
(* rtmidi thread in MidiController.on_midi_message.  Neither takes a lock   *)
(* around the edit and apply_patch_to_dmx_controller.                       *)
(***************************************************************************)
\* get_all_patched_fixtures()[0]: the fixture with the lowest start address.
FirstPatched ==
    CHOOSE id \in DOMAIN patched_fixtures :
        \A other \in DOMAIN patched_fixtures :
            patched_fixtures[id].start_address <= patched_fixtures[other].start_address

\* on_midi_message for a Note On, run from its first statement to its last
\* while no other thread holds the lock of the engine: offset 0 of the first
\* fixture is set to the velocity, then the patch is composed and written.
on_midi_message(velocity) ==
    /\ DOMAIN patched_fixtures # {}
    /\ CanAcquire(thread_lock)
    /\ LET edited == WriteChannelValue(patched_fixtures[FirstPatched], 0, velocity)
       IN  /\ heap' = edited
           /\ dmx_values' =
                  CHOOSE pushed \in
                      {ControllerSetChannels(dmx_values, 1, desired_dmx_state) :
                          desired_dmx_state \in {ComposedState(patched_fixtures, edited)}} : TRUE
           /\ instants' = Observed(patched_fixtures, edited)
    /\ last_call' = Call("on_midi_message", "ok", "", velocity)
    /\ blackout_fresh' = (blackout_fresh /\ dmx_values' = dmx_values)
    /\ UNCHANGED <<patched_fixtures, scenes, captured, is_running, dmx_buffer, loop_pc,
                   temp_dmx_values_copy, wire, frame_follows_blackout, callerVars, pusher,
                   whole_states, lifeVars, auxVars, chaserVars>>

\* on_fixture_channel_change up to the first statement of
\* apply_patch_to_dmx_controller: the slider value is stored, and
\* desired_dmx_state = bytearray(512) begins the composition.
ChannelChangeBegin(id, channel_offset, new_value) ==
    /\ pusher.pc = "idle"
    /\ id \in DOMAIN patched_fixtures
    /\ OffsetValueValid(patched_fixtures[id], channel_offset, new_value)
    /\ LET edited == WriteChannelValue(patched_fixtures[id], channel_offset, new_value)
       IN  /\ heap' = edited
           /\ instants' = {ComposedState(patched_fixtures, edited)}
    /\ pusher' = [pc |-> "compose", todo |-> DOMAIN patched_fixtures,
                  desired_dmx_state |-> ZeroBytes(512), i |-> 0]
    /\ last_call' = Call("set_channel_value_by_offset", "ok", "", 0)
    /\ UNCHANGED <<patched_fixtures, scenes, captured, engineVars, callerVars, whole_states,
                   lifeVars, auxVars, chaserVars>>

MidiVelocities == {64, 100}

SliderOffsets == {1}

SliderValues == {200, 255}

InitPushers ==
    /\ PatchedSpot
    /\ ConstructedEngine
    /\ NoCallers
    /\ NoShow
    /\ last_call = Call("init", "ok", "", 0)

NextPushers ==
    \/ \E o \in SliderOffsets, v \in SliderValues : ChannelChangeBegin(1, o, v)
    \/ PushCompose
    \/ PushAcquire
    \/ PushWrite
    \/ PushRelease
    \/ \E velocity \in MidiVelocities : on_midi_message(velocity)

SpecPushers == InitPushers /\ [][NextPushers]_vars

(***************************************************************************)
(* The degraded mode: the send loop beside one foreground caller that sets  *)
(* channels, blacks out and edits the fixture at any time, and pushes the   *)
(* patch once the device is lost.                                           *)
(***************************************************************************)
\* FixtureManager.apply_patch_to_dmx_controller called with no other writer of
\* the universe buffer: the composition, then set_channels(1, ...) as a whole.
apply_patch_to_dmx_controller ==
    /\ dmx_values' =
           CHOOSE pushed \in
               {ControllerSetChannels(dmx_values, 1, desired_dmx_state) :
                   desired_dmx_state \in {ComposedState(patched_fixtures, heap)}} : TRUE
    /\ last_call' = Call("apply_patch_to_dmx_controller", "ok", "", 0)
    /\ blackout_fresh' = (blackout_fresh /\ dmx_values' = dmx_values)
    /\ UNCHANGED <<is_running, dmx_buffer, loop_pc, temp_dmx_values_copy, wire,
                   frame_follows_blackout, patchVars, callerVars, showVars>>

DegradedChannels == {1, 512}

DegradedValues == {7}

DegradedValueLists == {<<7, 7>>}

DegradedEditOffsets == {0}

DegradedEditValues == {200}

\* One Spot is patched, and start_dmx_output() has started the loop.
InitDegraded ==
    /\ PatchedSpot
    /\ dmx_values = ZeroBytes(512)
    /\ is_running = TRUE
    /\ dmx_buffer = InitialDmxBuffer
    /\ loop_pc = "while"
    /\ temp_dmx_values_copy = << >>
    /\ wire = << >>
    /\ blackout_fresh = FALSE
    /\ frame_follows_blackout = FALSE
    /\ NoCallers
    /\ NoShow
    /\ last_call = Call("init", "ok", "", 0)

NextDegraded ==
    \/ \E c \in DegradedChannels, v \in DegradedValues : set_channel(c, v)
    \/ \E vs \in DegradedValueLists : set_channels(1, vs)
    \/ blackout
    \/ \E o \in DegradedEditOffsets, v \in DegradedEditValues :
          set_channel_value_by_offset(1, o, v)
    \/ /\ loop_pc \in {"final", "done"}
       /\ apply_patch_to_dmx_controller
    \/ LoopTest
    \/ LoopSnapshot
    \/ LoopFill
    \/ LoopSend
    \/ LoopSleep
    \/ LoopFinal

SpecDegraded == InitDegraded /\ [][NextDegraded]_vars

(***************************************************************************)
(* The patch pushed to the engine by one foreground caller: patch, unpatch, *)
(* edits of the live fixtures, direct writes of the universe buffer, and    *)
(* apply_patch_to_dmx_controller.  No send loop runs.                       *)
(***************************************************************************)
ComposeIdentifiers == {"/fx/./par4.json", "Spot"}

ComposeStartAddresses == {1, 4}

ComposeEditOffsets == {0}

ComposeEditValues == {200}

ComposeChannels == {6}

ComposeValues == {7}

InitCompose ==
    /\ EmptyPatch
    /\ ConstructedEngine
    /\ NoCallers
    /\ NoShow
    /\ last_call = Call("init", "ok", "", 0)

NextCompose ==
    \/ \E ident \in ComposeIdentifiers, a \in ComposeStartAddresses :
          /\ Len(heap) < MaxPatches \/ ~Registers(PatchOutcome(ident, a))
          /\ add_fixture_to_patch(ident, a)
    \/ \E id \in 1..MaxPatches : remove_fixture_from_patch(id)
    \/ \E id \in 1..MaxPatches, o \in ComposeEditOffsets, v \in ComposeEditValues :
          set_channel_value_by_offset(id, o, v)
    \/ \E c \in ComposeChannels, v \in ComposeValues : set_channel(c, v)
    \/ apply_patch_to_dmx_controller

SpecCompose == InitCompose /\ [][NextCompose]_vars

\* ---------------------------------------------------------------------------
\* Loading the fixture catalog and the scene set from a directory.
\* A JSON document is a record; a key that may be absent (or null) holds a
\* sequence: << >> for absent, <<v>> for the value v.
\* ---------------------------------------------------------------------------

\* Variant: the constructor without its second test.
CapabilityRaises_FirstTestOnly(value, range_min, range_max) ==
    value = << >> /\ (range_min = << >> \/ range_max = << >>)

\* FixtureChannelCapability.__init__: TRUE when the constructor raises.
CapabilityRaises(value, range_min, range_max) ==
    \/ value = << >> /\ (range_min = << >> \/ range_max = << >>)
    \/ value # << >> /\ (range_min # << >> \/ range_max # << >>)

\* One capability of the loop over caps_data: the key "description" is
\* required, the three others are read with get().
CapabilityRejected(cap_data) ==
    \/ cap_data.description = << >>
    \/ CapabilityRaises(cap_data.value, cap_data.range_min, cap_data.range_max)

\* One channel of the loop over raw_channels.
ChannelRejected(ch_data) ==
    \/ \E k \in DOMAIN ch_data.capabilities : CapabilityRejected(ch_data.capabilities[k])
    \/ ch_data.name = << >>
    \/ ch_data.dmx_channel_offset = << >>

\* The final test of from_json_file on the number of channels:
\* data.get("channels") is not None selects the length comparison.
ChannelCountRejected(channels_key, parsed_channels, total_channels) ==
    IF channels_key = "list"
    THEN Len(parsed_channels) # total_channels
    ELSE total_channels <= 0

\* FixtureDefinition.from_json_file: the error raised, or "ok" and the record.
from_json_file(data) ==
    IF \/ data.json # "ok"
       \/ data.channels_key = "text"
       \/ \E c \in DOMAIN data.channels : ChannelRejected(data.channels[c])
       \/ data.name = ""
       \/ data.total_channels = << >>
    THEN [outcome |-> "ValueError"]
    ELSE IF ChannelCountRejected(data.channels_key, data.channels, data.total_channels[1])
         THEN [outcome |-> "ValueError"]
         ELSE [outcome |-> "ok", name |-> data.name, channels_key |-> data.channels_key,
               channels |-> Len(data.channels), total_channels |-> data.total_channels[1]]

\* Scene.from_dict after json.load: the exception raised, or "ok".
from_dict(data) ==
    IF data.json # "ok" THEN "JSONDecodeError"
    ELSE IF data.fixture_states = "absent" THEN "KeyError"
    ELSE IF data.fixture_states = "list" THEN "AttributeError"
    ELSE IF data.fixture_key # "uuid" THEN "ValueError"
    ELSE IF data.byte > DMX_MAX_VALUE THEN "ValueError"
    ELSE IF data.name = << >> THEN "KeyError"
    ELSE IF data.id = "absent" THEN "KeyError"
    ELSE IF data.id # "uuid" THEN "ValueError"
    ELSE "ok"

\* The exceptions the loop of load_scenes catches; any other leaves the loop.
SceneLoadCaught == {"JSONDecodeError", "KeyError"}

\* load_definitions: one file of the loop; every exception is caught and printed.
LoadDefinitionFile ==
    /\ loader.kind = "definitions"
    /\ loader.status = "loading"
    /\ loader.pos <= Len(loader.directory)
    /\ LET parsed == from_json_file(loader.directory[loader.pos])
       IN  loader' = [loader EXCEPT
               !.pos = @ + 1,
               !.loaded = IF parsed.outcome = "ok" THEN @ \cup {loader.pos} ELSE @,
               !.errors = IF parsed.outcome = "ok" THEN @ ELSE @ \cup {loader.pos}]
    /\ UNCHANGED <<patchVars, engineVars, callerVars, last_call, pushVars, lifeVars, chaserVars,
                   dev, scene_files>>

\* load_scenes: one file of the loop; an exception outside SceneLoadCaught
\* leaves load_scenes and the files after it are not read.
LoadSceneFile ==
    /\ loader.kind = "scenes"
    /\ loader.status = "loading"
    /\ loader.pos <= Len(loader.directory)
    /\ LET outcome == from_dict(loader.directory[loader.pos])
       IN  loader' = [loader EXCEPT
               !.pos = @ + 1,
               !.loaded = IF outcome = "ok" THEN @ \cup {loader.pos} ELSE @,
               !.errors = IF outcome \in SceneLoadCaught THEN @ \cup {loader.pos} ELSE @,
               !.status = IF outcome \in SceneLoadCaught \cup {"ok"} THEN @ ELSE "raised"]
    /\ UNCHANGED <<patchVars, engineVars, callerVars, last_call, pushVars, lifeVars, chaserVars,
                   dev, scene_files>>

\* The loop of either load is over: the call returns.
LoadReturn ==
    /\ loader.kind \in {"definitions", "scenes"}
    /\ loader.status = "loading"
    /\ loader.pos > Len(loader.directory)
    /\ loader' = [loader EXCEPT !.status = "returned"]
    /\ UNCHANGED <<patchVars, engineVars, callerVars, last_call, pushVars, lifeVars, chaserVars,
                   dev, scene_files>>

\* Capability descriptors: each of value, range_min, range_max present or not.
DescribedCapabilities ==
    [description : {<<"Full">>}, value : {<< >>, <<0>>},
     range_min : {<< >>, <<0>>}, range_max : {<< >>, <<255>>}]

CapabilityDescriptors ==
    DescribedCapabilities \cup
        {[description |-> << >>, value |-> <<0>>, range_min |-> << >>, range_max |-> << >>]}

ChannelOf(capabilities) ==
    [name |-> <<"Dimmer">>, dmx_channel_offset |-> <<0>>, capabilities |-> capabilities]

PlainChannel == ChannelOf(<< >>)

\* A definition file that from_json_file accepts.
ValidDefinitionFile ==
    [json |-> "ok", name |-> "LED PAR", channels_key |-> "list",
     channels |-> <<PlainChannel>>, total_channels |-> <<1>>]

\* Files with one channel that has one capability descriptor.
CapabilityFiles ==
    {[ValidDefinitionFile EXCEPT !.channels = <<ChannelOf(<<cap>>)>>] : cap \in CapabilityDescriptors}

\* Files that differ in the channel list and in total_channels.
ChannelCountFiles ==
    {[ValidDefinitionFile EXCEPT !.channels_key = "absent", !.channels = << >>, !.total_channels = t] :
         t \in {<< >>, <<-1>>, <<0>>, <<1>>, <<2>>}}
    \cup
    {[ValidDefinitionFile EXCEPT !.channels = c, !.total_channels = t] :
         c \in {<< >>, <<PlainChannel>>, <<PlainChannel, PlainChannel>>},
         t \in {<< >>, <<-1>>, <<0>>, <<1>>, <<2>>}}

\* Files that are malformed in another way.
MalformedDefinitionFiles ==
    {[ValidDefinitionFile EXCEPT !.json = "bad"],
     [ValidDefinitionFile EXCEPT !.name = ""],
     [ValidDefinitionFile EXCEPT !.channels_key = "text", !.channels = << >>],
     [ValidDefinitionFile EXCEPT !.channels = <<[PlainChannel EXCEPT !.name = << >>]>>],
     [ValidDefinitionFile EXCEPT !.channels = <<[PlainChannel EXCEPT !.dmx_channel_offset = << >>]>>]}

DefinitionFiles == CapabilityFiles \cup ChannelCountFiles \cup MalformedDefinitionFiles

\* A scene file that load_scenes accepts.
ValidSceneFile ==
    [json |-> "ok", name |-> <<"Scene">>, id |-> "uuid", fixture_states |-> "dict",
     fixture_key |-> "uuid", byte |-> 0]

SceneFiles ==
    {ValidSceneFile,
     [ValidSceneFile EXCEPT !.json = "bad"],
     [ValidSceneFile EXCEPT !.name = << >>],
     [ValidSceneFile EXCEPT !.id = "absent"],
     [ValidSceneFile EXCEPT !.id = "not-a-uuid"],
     [ValidSceneFile EXCEPT !.fixture_states = "absent"],
     [ValidSceneFile EXCEPT !.fixture_states = "list"],
     [ValidSceneFile EXCEPT !.fixture_key = "not-a-uuid"],
     [ValidSceneFile EXCEPT !.byte = 256]}

\* A directory of MaxFiles files: valid files and one file under test.
Directories(valid, files) ==
    {[i \in 1..MaxFiles |-> IF i = p THEN f ELSE valid] : p \in 1..MaxFiles, f \in files}

StartOfLoad(kind, directory) ==
    [kind |-> kind, directory |-> directory, pos |-> 1, loaded |-> {}, errors |-> {},
     status |-> "loading"]

InitLoad ==
    /\ EmptyPatch /\ ConstructedEngine /\ NoCallers
    /\ dev = NoDevice
    /\ scene_files = NoSceneFiles
    /\ last_call = Call("init", "ok", "", 0)
    /\ QuietShow
    /\ \/ \E d \in Directories(ValidDefinitionFile, DefinitionFiles) :
              loader = StartOfLoad("definitions", d)
       \/ \E d \in Directories(ValidSceneFile, SceneFiles) :
              loader = StartOfLoad("scenes", d)

NextLoad ==
    \/ LoadDefinitionFile
    \/ LoadSceneFile
    \/ LoadReturn

SpecLoad == InitLoad /\ [][NextLoad]_vars

(***************************************************************************)
(* The life of the send loop: start_dmx_output, stop_dmx_output and close   *)
(* called by one foreground thread, and every thread ever started on        *)
(* _dmx_send_loop.  loops[t].pc is the position of thread t, as loop_pc.    *)
(***************************************************************************)
\* Variables the life of the loop never touches.
lifeFrame == <<loop_pc, temp_dmx_values_copy, patchVars, callerVars, pushVars, chaserVars,
              auxVars>>

\* The truth value of self.dmx_sender: None is false; a DMXSender object is
\* true, with its device open ("open") or with dev None ("unopened").
HasSender(sender) == sender # "None"

\* DMXController.__init__ calls DMXSender(auto_open=True), whose __init__
\* catches the error of open() and returns the object with dev None.
ConstructedSender(device_opens) == IF device_opens THEN "open" ELSE "unopened"

\* Thread.is_alive().
Alive(t) == loops[t].pc # "done"

AliveLoops == {t \in DOMAIN loops : Alive(t)}

\* while self.is_running, then "if self.dmx_sender": without a sender the flag
\* is cleared and the loop left.
ThreadTest(t) ==
    /\ loops[t].pc = "while"
    /\ IF LoopContinues(is_running)
       THEN IF HasSender(dmx_sender)
            THEN /\ loops' = [loops EXCEPT ![t].pc = "snapshot"]
                 /\ UNCHANGED is_running
            ELSE /\ loops' = [loops EXCEPT ![t].pc = "final"]
                 /\ is_running' = FALSE
       ELSE /\ loops' = [loops EXCEPT ![t].pc = "final"]
            /\ UNCHANGED is_running
    /\ UNCHANGED <<dmx_values, dmx_buffer, wire, blackout_fresh, frame_follows_blackout,
                   dmx_thread, stopper, dmx_sender, last_call, lifeFrame>>

\* temp_dmx_values_copy = self.get_all_values().
ThreadSnapshot(t) ==
    /\ loops[t].pc = "snapshot"
    /\ CanAcquire(thread_lock)
    /\ loops' = [loops EXCEPT ![t].pc = "fill", ![t].temp_dmx_values_copy = dmx_values]
    /\ UNCHANGED <<dmx_values, is_running, dmx_buffer, wire, blackout_fresh,
                   frame_follows_blackout, dmx_thread, stopper, dmx_sender, last_call,
                   lifeFrame>>

\* self.dmx_sender.set_channels(1, ...): on a sender that close() set to None
\* the call raises, and the handler clears the flag and breaks.
ThreadFill(t) ==
    /\ loops[t].pc = "fill"
    /\ IF HasSender(dmx_sender)
       THEN /\ loops' = [loops EXCEPT ![t].pc = "send"]
            /\ dmx_buffer' = SenderSetChannels(dmx_buffer, 1, loops[t].temp_dmx_values_copy)
            /\ UNCHANGED is_running
       ELSE /\ is_running' = FALSE
            /\ loops' = [loops EXCEPT ![t].pc = "final"]
            /\ UNCHANGED dmx_buffer
    /\ UNCHANGED <<dmx_values, wire, blackout_fresh, frame_follows_blackout, dmx_thread,
                   stopper, dmx_sender, last_call, lifeFrame>>

\* self.dmx_sender.send_dmx(): the frame is written, or the call raises and the
\* handler clears the flag and breaks.
ThreadSend(t) ==
    /\ loops[t].pc = "send"
    /\ \/ /\ dmx_sender = "open"
          /\ wire' = dmx_buffer
          /\ frame_follows_blackout' = blackout_fresh
          /\ blackout_fresh' = FALSE
          /\ loops' = [loops EXCEPT ![t].pc = "sleep"]
          /\ UNCHANGED is_running
       \/ /\ is_running' = FALSE
          /\ loops' = [loops EXCEPT ![t].pc = "final"]
          /\ UNCHANGED <<wire, frame_follows_blackout, blackout_fresh>>
    /\ UNCHANGED <<dmx_values, dmx_buffer, dmx_thread, stopper, dmx_sender, last_call,
                   lifeFrame>>

\* time.sleep(self.update_interval).
ThreadSleep(t) ==
    /\ loops[t].pc = "sleep"
    /\ loops' = [loops EXCEPT ![t].pc = "while"]
    /\ UNCHANGED <<dmx_values, is_running, dmx_buffer, wire, blackout_fresh,
                   frame_follows_blackout, dmx_thread, stopper, dmx_sender, last_call,
                   lifeFrame>>

\* After the loop: with a sender, clear_all_channels() and send_dmx(), an error
\* being caught; the thread ends.
ThreadFinal(t) ==
    /\ loops[t].pc = "final"
    /\ loops' = [loops EXCEPT ![t].pc = "done"]
    /\ IF HasSender(dmx_sender)
       THEN /\ dmx_buffer' = SenderClearAllChannels(dmx_buffer)
            /\ \/ /\ dmx_sender = "open"
                  /\ wire' = dmx_buffer'
                  /\ frame_follows_blackout' = blackout_fresh
                  /\ blackout_fresh' = FALSE
               \/ UNCHANGED <<wire, frame_follows_blackout, blackout_fresh>>
       ELSE UNCHANGED <<dmx_buffer, wire, frame_follows_blackout, blackout_fresh>>
    /\ UNCHANGED <<dmx_values, is_running, dmx_thread, stopper, dmx_sender, last_call,
                   lifeFrame>>

\* A start_dmx_output without its test of the sender.
StartsThread_NoSenderTest == ~is_running

\* Whether start_dmx_output starts a thread.
StartsThread == HasSender(dmx_sender) /\ ~is_running

\* DMXController.start_dmx_output.
start_dmx_output ==
    /\ stopper.pc = "idle"
    /\ IF StartsThread
       THEN /\ is_running' = TRUE
            /\ loops' = Append(loops, [pc |-> "while", temp_dmx_values_copy |-> << >>])
            /\ dmx_thread' = Len(loops) + 1
            /\ last_call' = Call("start_dmx_output", "started", "", 0)
       ELSE /\ last_call' = Call("start_dmx_output", "no-op", "", 0)
            /\ UNCHANGED <<is_running, loops, dmx_thread>>
    /\ UNCHANGED <<dmx_values, dmx_buffer, wire, blackout_fresh, frame_follows_blackout,
                   stopper, dmx_sender, lifeFrame>>

\* Where the foreground thread goes when stop_dmx_output returns: back to its
\* caller, which is close() or the application.
AfterStop(closing) == IF closing THEN [pc |-> "close", closing |-> TRUE] ELSE IdleStopper

\* stop_dmx_output up to its join: return if not running; else clear the flag
\* and, with a live thread, wait for it.  close() begins with the same call.
StopBegin(closing) ==
    /\ stopper.pc = "idle"
    /\ IF ~is_running
       THEN /\ stopper' = AfterStop(closing)
            /\ last_call' = Call("stop_dmx_output", "not_running", "", 0)
            /\ UNCHANGED <<is_running, dmx_thread>>
       ELSE /\ is_running' = FALSE
            /\ IF dmx_thread # 0 /\ Alive(dmx_thread)
               THEN /\ stopper' = [pc |-> "join", closing |-> closing]
                    /\ UNCHANGED <<dmx_thread, last_call>>
               ELSE /\ stopper' = AfterStop(closing)
                    /\ dmx_thread' = 0
                    /\ last_call' = Call("stop_dmx_output", "joined", "", 0)
    /\ UNCHANGED <<dmx_values, dmx_buffer, wire, blackout_fresh, frame_follows_blackout,
                   loops, dmx_sender, lifeFrame>>

\* self._dmx_thread.join(timeout=...): the thread has ended, or the timeout
\* passes with the thread alive and a warning is printed; then
\* self._dmx_thread = None.
StopJoin ==
    /\ stopper.pc = "join"
    /\ last_call' = Call("stop_dmx_output",
                         IF Alive(dmx_thread) THEN "timeout" ELSE "joined", "", 0)
    /\ dmx_thread' = 0
    /\ stopper' = AfterStop(stopper.closing)
    /\ UNCHANGED <<dmx_values, is_running, dmx_buffer, wire, blackout_fresh,
                   frame_follows_blackout, loops, dmx_sender, lifeFrame>>

\* The rest of close(): self.dmx_sender.close() and self.dmx_sender = None.
CloseSender ==
    /\ stopper.pc = "close"
    /\ dmx_sender' = "None"
    /\ stopper' = IdleStopper
    /\ last_call' = Call("close", "ok", "", 0)
    /\ UNCHANGED <<dmx_values, is_running, dmx_buffer, wire, blackout_fresh,
                   frame_follows_blackout, loops, dmx_thread, lifeFrame>>

\* A step of thread t of the send loop.
LoopStep(t) ==
    /\ t \in DOMAIN loops
    /\ \/ ThreadTest(t)
       \/ ThreadSnapshot(t)
       \/ ThreadFill(t)
       \/ ThreadSend(t)
       \/ ThreadSleep(t)
       \/ ThreadFinal(t)

\* DMXController(auto_start_thread=False): constructed, nothing started.
InitLife ==
    /\ EmptyPatch
    /\ ConstructedEngine
    /\ NoCallers
    /\ NoShow
    /\ last_call = Call("init", "ok", "", 0)

NextLife ==
    \/ /\ Len(loops) < MaxLoops \/ ~StartsThread
       /\ start_dmx_output
    \/ StopBegin(FALSE)
    \/ StopBegin(TRUE)
    \/ StopJoin
    \/ CloseSender
    \/ \E t \in DOMAIN loops : ThreadTest(t)
    \/ \E t \in DOMAIN loops : ThreadSnapshot(t)
    \/ \E t \in DOMAIN loops : ThreadFill(t)
    \/ \E t \in DOMAIN loops : ThreadSend(t)
    \/ \E t \in DOMAIN loops : ThreadSleep(t)
    \/ \E t \in DOMAIN loops : ThreadFinal(t)

SpecLife == InitLife /\ [][NextLife]_vars

\* Some step of the send loop.
SomeLoopStep == \E t \in DOMAIN loops : LoopStep(t)

\* The scheduler does not leave every thread of the loop waiting for ever:
\* sleep and the device write return.
SpecLifeFair == SpecLife /\ WF_loops(SomeLoopStep)

\* The threads of the send loop beside a foreground thread that also writes a
\* channel of the universe.
WireChannels == {1}

WireValues == {7}

NextWire ==
    \/ NextLife
    \/ \E c \in WireChannels, v \in WireValues : set_channel(c, v)

SpecWire == InitLife /\ [][NextWire]_vars

(***************************************************************************)
(* The end of _dmx_send_loop statement by statement: clear_all_channels()   *)
(* on the sender, then send_dmx(), with the other threads free to run in    *)
(* between.  loops[t].pc is "final_send" between the two.                   *)
(***************************************************************************)
\* if self.dmx_sender: self.dmx_sender.clear_all_channels(); without a sender
\* the thread ends.
ThreadFinalClear(t) ==
    /\ loops[t].pc = "final"
    /\ IF HasSender(dmx_sender)
       THEN /\ dmx_buffer' = SenderClearAllChannels(dmx_buffer)
            /\ loops' = [loops EXCEPT ![t].pc = "final_send"]
       ELSE /\ loops' = [loops EXCEPT ![t].pc = "done"]
            /\ UNCHANGED dmx_buffer
    /\ UNCHANGED <<dmx_values, is_running, wire, blackout_fresh, frame_follows_blackout,
                   dmx_thread, stopper, dmx_sender, last_call, lifeFrame>>

\* self.dmx_sender.send_dmx() of the final section: the frame buffer is
\* written to the device, or the call raises, which is caught; the thread ends.
ThreadFinalSend(t) ==
    /\ loops[t].pc = "final_send"
    /\ loops' = [loops EXCEPT ![t].pc = "done"]
    /\ \/ /\ dmx_sender = "open"
          /\ wire' = dmx_buffer
          /\ frame_follows_blackout' = blackout_fresh
          /\ blackout_fresh' = FALSE
       \/ UNCHANGED <<wire, frame_follows_blackout, blackout_fresh>>
    /\ UNCHANGED <<dmx_values, is_running, dmx_buffer, dmx_thread, stopper, dmx_sender,
                   last_call, lifeFrame>>

\* The threads this specification lets start: one fewer than SpecLife, each
\* thread having one position more.
FinalThreads == MaxLoops - 1

NextFinal ==
    \/ /\ Len(loops) < FinalThreads \/ ~StartsThread
       /\ start_dmx_output
    \/ StopBegin(FALSE)
    \/ StopBegin(TRUE)
    \/ StopJoin
    \/ CloseSender
    \/ \E t \in DOMAIN loops : ThreadTest(t)
    \/ \E t \in DOMAIN loops : ThreadSnapshot(t)
    \/ \E t \in DOMAIN loops : ThreadFill(t)
    \/ \E t \in DOMAIN loops : ThreadSend(t)
    \/ \E t \in DOMAIN loops : ThreadSleep(t)
    \/ \E t \in DOMAIN loops : ThreadFinalClear(t)
    \/ \E t \in DOMAIN loops : ThreadFinalSend(t)
    \/ \E c \in WireChannels, v \in WireValues : set_channel(c, v)

SpecFinal == InitLife /\ [][NextFinal]_vars

\* DMXController(auto_start_thread=False) with an adapter that opens or that
\* cannot be opened; the application then calls start, stop and close.
InitAdapter ==
    /\ EmptyPatch
    /\ ConstructedEngine
    /\ NoCallers
    /\ pusher = IdlePusher
    /\ whole_states = {}
    /\ instants = {}
    /\ loops = << >>
    /\ dmx_thread = 0
    /\ stopper = IdleStopper
    /\ \E device_opens \in BOOLEAN :
          /\ dmx_sender = ConstructedSender(device_opens)
          /\ dev = DeviceAfterInit(device_opens)
    /\ chaser = NewChaser(<< >>)
    /\ chaser_tasks = << >>
    /\ chaser_caller = "idle"
    /\ chaser_log = NoSteps
    /\ loader = NoLoader
    /\ scene_files = NoSceneFiles
    /\ last_call = Call("init", "ok", "", 0)

SpecAdapter == InitAdapter /\ [][NextLife]_vars

(***************************************************************************)
(* DMXSender used by one thread: its setters, and send_dmx one step per     *)
(* operation on the device.  dev.pc: "idle", "break_baud", "break_byte",    *)
(* "data_baud", "data"; dev.log: the operations of the call of send_dmx     *)
(* that is running or was made last.                                        *)
(***************************************************************************)
\* A range test that lets index 0 of the frame buffer through.
SenderChannelValid_FromZero(channel) == 0 <= channel /\ channel <= 512

\* The test "1 <= channel <= 512" of DMXSender.set_channel.
SenderChannelValid(channel) == 1 <= channel /\ channel <= 512

\* DMXSender.set_channel: self._dmx_buffer[channel] = value, or ValueError.
SenderSetChannel(buffer, channel, value) ==
    IF SenderChannelValid(channel) /\ ValueValid(value)
    THEN [buffer EXCEPT ![channel + 1] = value]
    ELSE buffer

\* An operation on the device as the device sees it.
BaudrateSet(rate) == [op |-> "baudrate", baudrate |-> rate, data |-> << >>]

Written(rate, data) == [op |-> "write", baudrate |-> rate, data |-> data]

sender_set_channel(channel, value) ==
    /\ dev.pc = "idle"
    /\ dmx_buffer' = SenderSetChannel(dmx_buffer, channel, value)
    /\ last_call' = Call("DMXSender.set_channel",
                         IF SenderChannelValid(channel) /\ ValueValid(value)
                         THEN "ok" ELSE "ValueError", "", channel)
    /\ UNCHANGED <<dmx_values, is_running, loop_pc, temp_dmx_values_copy, wire,
                   blackout_fresh, frame_follows_blackout, patchVars, callerVars,
                   showVars>>

sender_set_channels(start_channel, values) ==
    /\ dev.pc = "idle"
    /\ dmx_buffer' = SenderSetChannels(dmx_buffer, start_channel, values)
    /\ last_call' = Call("DMXSender.set_channels",
                         SetChannelsOutcome(start_channel, values), "", start_channel)
    /\ UNCHANGED <<dmx_values, is_running, loop_pc, temp_dmx_values_copy, wire,
                   blackout_fresh, frame_follows_blackout, patchVars, callerVars,
                   showVars>>

sender_clear_all_channels ==
    /\ dev.pc = "idle"
    /\ dmx_buffer' = SenderClearAllChannels(dmx_buffer)
    /\ last_call' = Call("DMXSender.clear_all_channels", "ok", "", 0)
    /\ UNCHANGED <<dmx_values, is_running, loop_pc, temp_dmx_values_copy, wire,
                   blackout_fresh, frame_follows_blackout, patchVars, callerVars,
                   showVars>>

\* What a step of send_dmx leaves alone.
sendFrame == <<dmx_values, is_running, dmx_buffer, loop_pc, temp_dmx_values_copy,
               blackout_fresh, frame_follows_blackout, patchVars, callerVars, pushVars,
               lifeVars, chaserVars, loader, scene_files>>

\* send_dmx is called: ConnectionError when the device is not open.
SendDmxCall ==
    /\ dev.pc = "idle"
    /\ IF dmx_sender = "open"
       THEN /\ dev' = [dev EXCEPT !.pc = "break_baud", !.log = << >>]
            /\ UNCHANGED last_call
       ELSE /\ last_call' = Call("send_dmx", "ConnectionError", "", 0)
            /\ UNCHANGED dev
    /\ UNCHANGED <<wire, sendFrame>>

\* self.dev.baudrate = BREAK_BAUDRATE.
SendDmxBreakBaud ==
    /\ dev.pc = "break_baud"
    /\ dev' = [dev EXCEPT !.baudrate = BREAK_BAUDRATE, !.pc = "break_byte",
                          !.log = Append(@, BaudrateSet(BREAK_BAUDRATE))]
    /\ UNCHANGED <<wire, last_call, sendFrame>>

\* self.dev.write(b'\x00').
SendDmxBreakByte ==
    /\ dev.pc = "break_byte"
    /\ dev' = [dev EXCEPT !.pc = "data_baud",
                          !.log = Append(@, Written(dev.baudrate, <<0>>))]
    /\ UNCHANGED <<wire, last_call, sendFrame>>

\* self.dev.baudrate = DMX_BAUDRATE.
SendDmxDataBaud ==
    /\ dev.pc = "data_baud"
    /\ dev' = [dev EXCEPT !.baudrate = DMX_BAUDRATE, !.pc = "data",
                          !.log = Append(@, BaudrateSet(DMX_BAUDRATE))]
    /\ UNCHANGED <<wire, last_call, sendFrame>>

\* self.dev.write(self._dmx_buffer): the frame is on the wire and send_dmx returns.
SendDmxData ==
    /\ dev.pc = "data"
    /\ dev' = [dev EXCEPT !.pc = "idle",
                          !.log = Append(@, Written(dev.baudrate, dmx_buffer))]
    /\ wire' = dmx_buffer
    /\ last_call' = Call("send_dmx", "sent", "", 0)
    /\ UNCHANGED sendFrame

\* An operation on the device raises: send_dmx prints and raises it again.
SendDmxRaises ==
    /\ dev.pc \in {"break_baud", "break_byte", "data_baud", "data"}
    /\ dev' = [dev EXCEPT !.pc = "idle"]
    /\ last_call' = Call("send_dmx", "FtdiError", "", 0)
    /\ UNCHANGED <<wire, sendFrame>>

SenderChannels == {0, 1, 512, 513}

SenderValues == {7, 256}

SenderStartChannels == {1, 512}

SenderValueLists == {<<7, 7>>, <<7, 256>>}

\* DMXSender(auto_open=True) with a device that opens or does not.
InitSender ==
    /\ EmptyPatch
    /\ ConstructedEngine
    /\ NoCallers
    /\ pusher = IdlePusher
    /\ whole_states = {}
    /\ instants = {}
    /\ loops = << >>
    /\ dmx_thread = 0
    /\ stopper = IdleStopper
    /\ \E device_opens \in BOOLEAN :
          /\ dmx_sender = ConstructedSender(device_opens)
          /\ dev = DeviceAfterInit(device_opens)
    /\ chaser = NewChaser(<< >>)
    /\ chaser_tasks = << >>
    /\ chaser_caller = "idle"
    /\ chaser_log = NoSteps
    /\ loader = NoLoader
    /\ scene_files = NoSceneFiles
    /\ last_call = Call("init", "ok", "", 0)

NextSender ==
    \/ \E c \in SenderChannels, v \in SenderValues : sender_set_channel(c, v)
    \/ \E c \in SenderStartChannels, values \in SenderValueLists : sender_set_channels(c, values)
    \/ sender_clear_all_channels
    \/ SendDmxCall
    \/ SendDmxBreakBaud
    \/ SendDmxBreakByte
    \/ SendDmxDataBaud
    \/ SendDmxData
    \/ SendDmxRaises

SpecSender == InitSender /\ [][NextSender]_vars

(***************************************************************************)
(* The chaser (chaser_manager.py): start and stop called by one foreground  *)
(* thread, manual edits of the fixture, and every thread ever started on    *)
(* Chaser._run.  chaser_tasks[t] is the position of thread t: "while" (the  *)
(* test of the flag), "step" (one scene is applied and pushed), "sleep",    *)
(* or "done" once _run has returned.                                        *)
(***************************************************************************)
\* The threads started on _run that have not ended.
AliveTasks == {t \in DOMAIN chaser_tasks : chaser_tasks[t] # "done"}

\* A start() that starts a thread whatever the flag says.
StartAllowed_Always(flag) == TRUE

\* "if self.is_running: return" of Chaser.start.
StartAllowed(flag) == ~flag

\* A join that returns without waiting for the thread.
Joined_AtOnce(position) == TRUE

\* self.thread.join(): returns once the thread has ended.
Joined(position) == position = "done"

\* Chaser.start.
ChaserStart ==
    /\ chaser_caller = "idle"
    /\ IF StartAllowed(chaser.is_running)
       THEN /\ chaser_tasks' = Append(chaser_tasks, "while")
            /\ chaser' = [chaser EXCEPT !.is_running = TRUE,
                                        !.thread = Len(chaser_tasks) + 1]
            /\ chaser_log' = [chaser_log EXCEPT !.expected = 0, !.stopped = FALSE]
            /\ last_call' = Call("Chaser.start", "started", "", 0)
       ELSE /\ UNCHANGED <<chaser, chaser_tasks, chaser_log>>
            /\ last_call' = Call("Chaser.start", "no-op", "", 0)
    /\ UNCHANGED <<chaser_caller, patchVars, engineVars, callerVars, pushVars, lifeVars, auxVars>>

\* Chaser.stop up to the join: the flag is cleared, and a thread that is alive
\* is waited for.
ChaserStopBegin ==
    /\ chaser_caller = "idle"
    /\ IF chaser.thread # 0 /\ chaser.thread \in AliveTasks
       THEN /\ chaser' = [chaser EXCEPT !.is_running = FALSE]
            /\ chaser_caller' = "join"
            /\ UNCHANGED <<last_call, chaser_log>>
       ELSE /\ chaser' = [chaser EXCEPT !.is_running = FALSE, !.thread = 0]
            /\ chaser_log' = [chaser_log EXCEPT !.stopped = TRUE]
            /\ last_call' = Call("Chaser.stop", "ok", "", 0)
            /\ UNCHANGED chaser_caller
    /\ UNCHANGED <<chaser_tasks, patchVars, engineVars, callerVars, pushVars, lifeVars, auxVars>>

\* The join of Chaser.stop returns; self.thread = None.
ChaserStopJoin ==
    /\ chaser_caller = "join"
    /\ Joined(chaser_tasks[chaser.thread])
    /\ chaser' = [chaser EXCEPT !.thread = 0]
    /\ chaser_caller' = "idle"
    /\ chaser_log' = [chaser_log EXCEPT !.stopped = TRUE]
    /\ last_call' = Call("Chaser.stop", "ok", "", 0)
    /\ UNCHANGED <<chaser_tasks, patchVars, engineVars, callerVars, pushVars, lifeVars, auxVars>>

\* "while self.is_running" and "if not self.scene_ids: break" of _run.
ChaserTest(t) ==
    /\ chaser_tasks[t] = "while"
    /\ chaser_tasks' = [chaser_tasks EXCEPT ![t] =
                           IF chaser.is_running /\ chaser.scene_ids # << >>
                           THEN "step" ELSE "done"]
    /\ UNCHANGED <<chaser, chaser_caller, chaser_log, last_call, patchVars, engineVars,
                   callerVars, pushVars, lifeVars, auxVars>>

\* An iteration that applies no scene.
SteppedFixtures_Keep(scene_id) == patched_fixtures

\* The fixtures after the body of one iteration: scenes.get(scene_id), and
\* apply_scene when the scene is found.
SteppedFixtures(scene_id) ==
    IF scene_id \in DOMAIN scenes THEN AppliedFixtures(scenes[scene_id])
    ELSE patched_fixtures

\* The body of one iteration of _run: the scene at current_step is applied and
\* the patch is pushed to the engine, then current_step advances round the list.
ChaserStep(t) ==
    /\ chaser_tasks[t] = "step"
    /\ chaser_tasks' = [chaser_tasks EXCEPT ![t] = "sleep"]
    /\ LET scene_id == At(chaser.scene_ids, chaser.current_step)
       IN  /\ patched_fixtures' = SteppedFixtures(scene_id)
           /\ dmx_values' =
                  IF scene_id \in DOMAIN scenes
                  THEN CHOOSE pushed \in
                           {ControllerSetChannels(dmx_values, 1, desired_dmx_state) :
                               desired_dmx_state \in
                                   {ComposedState(patched_fixtures', heap)}} : TRUE
                  ELSE dmx_values
    /\ blackout_fresh' = (blackout_fresh /\ dmx_values' = dmx_values)
    /\ chaser' = [chaser EXCEPT
                     !.current_step = (chaser.current_step + 1) % Len(chaser.scene_ids)]
    /\ chaser_log' = [chaser_log EXCEPT
                         !.due = chaser_log.expected,
                         !.applied = chaser.current_step,
                         !.expected = (chaser_log.expected + 1) % Len(chaser.scene_ids)]
    /\ UNCHANGED <<heap, scenes, captured, is_running, dmx_buffer, loop_pc,
                   temp_dmx_values_copy, wire, frame_follows_blackout, chaser_caller,
                   last_call, callerVars, pushVars, lifeVars, auxVars>>

\* time.sleep(self.step_duration) returns.
ChaserSleep(t) ==
    /\ chaser_tasks[t] = "sleep"
    /\ chaser_tasks' = [chaser_tasks EXCEPT ![t] = "while"]
    /\ UNCHANGED <<chaser, chaser_caller, chaser_log, last_call, patchVars, engineVars,
                   callerVars, pushVars, lifeVars, auxVars>>

\* A step of some thread running _run.
ChaserTaskStep == \E t \in DOMAIN chaser_tasks : ChaserTest(t) \/ ChaserStep(t) \/ ChaserSleep(t)

\* MaxSteps scenes captured by create_scene from the patch of one Spot: each
\* holds the fixture's own bytearray.
CapturedSpotScenes ==
    /\ patched_fixtures = (1 :> [definition |-> "/fx/spot2.json", start_address |-> 1,
                                 channel_values |-> 1])
    /\ heap = <<InitialChannelValues(DefinitionAt("/fx/spot2.json"))>>
    /\ scenes = [s \in 1..MaxSteps |-> [fixture_states |-> (1 :> 1)]]
    /\ captured = [s \in 1..MaxSteps |->
                      (1 :> InitialChannelValues(DefinitionAt("/fx/spot2.json")))]

ChaserEditOffsets == {0}

ChaserEditValues == {200, 0}

\* create_chaser over the first n scenes, n = 0 for an empty chaser.
InitChaser ==
    /\ CapturedSpotScenes
    /\ ConstructedEngine
    /\ NoCallers
    /\ pusher = IdlePusher
    /\ whole_states = {}
    /\ instants = {}
    /\ loops = << >>
    /\ dmx_thread = 0
    /\ stopper = IdleStopper
    /\ dmx_sender = "open"
    /\ \E n \in 0..MaxSteps : chaser = NewChaser([i \in 1..n |-> i])
    /\ chaser_tasks = << >>
    /\ chaser_caller = "idle"
    /\ chaser_log = NoSteps
    /\ loader = NoLoader
    /\ scene_files = NoSceneFiles
    /\ dev = NoDevice
    /\ last_call = Call("init", "ok", "", 0)

NextChaser ==
    \/ /\ Len(chaser_tasks) < MaxStarts \/ ~StartAllowed(chaser.is_running)
       /\ ChaserStart
    \/ ChaserStopBegin
    \/ ChaserStopJoin
    \/ \E t \in DOMAIN chaser_tasks : ChaserTest(t)
    \/ \E t \in DOMAIN chaser_tasks : ChaserStep(t)
    \/ \E t \in DOMAIN chaser_tasks : ChaserSleep(t)
    \/ /\ chaser_caller = "idle"
       /\ \E o \in ChaserEditOffsets, v \in ChaserEditValues :
             set_channel_value_by_offset(1, o, v)

SpecChaser == InitChaser /\ [][NextChaser]_vars

\* The chaser, the manual edits and the engine's blackout() side by side.
NextBlackout ==
    \/ NextChaser
    \/ blackout

SpecBlackout == InitChaser /\ [][NextBlackout]_vars

\* The scheduler runs the threads: a thread on _run that can step does step,
\* and a join that can return does return.
SpecChaserFair ==
    SpecChaser /\ WF_chaser_tasks(ChaserTaskStep) /\ WF_chaser_caller(ChaserStopJoin)

\* A scene id that the scene store does not hold: its scene was never loaded.
StaleSceneId == 9

\* Scene lists of a chaser over the stored scene 1 and the stale id.
StaleSceneLists ==
    {<<1>>, <<StaleSceneId>>, <<1, StaleSceneId>>, <<StaleSceneId, 1>>}

\* One Spot at address 1 and one scene read by load_scenes: the scene holds
\* its own bytearray (50, 0) for the fixture.
LoadedSpotScene ==
    /\ patched_fixtures = (1 :> [definition |-> "/fx/spot2.json", start_address |-> 1,
                                 channel_values |-> 1])
    /\ heap = <<InitialChannelValues(DefinitionAt("/fx/spot2.json")), <<50, 0>>>>
    /\ scenes = (1 :> [fixture_states |-> (1 :> 2)])
    /\ captured = (1 :> (1 :> <<50, 0>>))

InitStale ==
    /\ LoadedSpotScene
    /\ ConstructedEngine
    /\ NoCallers
    /\ pusher = IdlePusher
    /\ whole_states = {}
    /\ instants = {}
    /\ loops = << >>
    /\ dmx_thread = 0
    /\ stopper = IdleStopper
    /\ dmx_sender = "open"
    /\ loader = NoLoader
    /\ scene_files = NoSceneFiles
    /\ dev = NoDevice
    /\ last_call = Call("init", "ok", "", 0)
    /\ \E scene_ids \in StaleSceneLists :
          /\ chaser = NewChaser(scene_ids)
          /\ chaser_tasks = << >>
          /\ chaser_caller = "idle"
          /\ chaser_log = NoSteps

SpecStale == InitStale /\ [][NextChaser]_vars

(***************************************************************************)
(* Properties of the patch layer (checked under SpecPatch).                 *)
(***************************************************************************)
\* The addresses a fixture occupies: [start_address, start_address + total_channels - 1].
AddressRange(pf) == pf.start_address .. EndAddress(pf)

\* C1: after any sequence of patch and unpatch operations, no two live
\* PatchedFixture instances have intersecting address ranges.
C1_NoOverlap ==
    \A a \in DOMAIN patched_fixtures, b \in DOMAIN patched_fixtures :
        a # b => AddressRange(patched_fixtures[a]) \cap AddressRange(patched_fixtures[b]) = {}

\* Two live fixtures with adjacent ranges, the second patched after an unpatch
\* freed nothing it needs: [1,4] next to [5,...].
C1_Witness ==
    \E a \in DOMAIN patched_fixtures, b \in DOMAIN patched_fixtures :
        /\ AddressRange(patched_fixtures[a]) = 1..4
        /\ patched_fixtures[b].start_address = 5
        /\ AddressRange(patched_fixtures[b]) # {}

\* C2: every live PatchedFixture has 1 <= start_address and
\* start_address + total_channels - 1 <= 512.
C2_InUniverse ==
    \A id \in DOMAIN patched_fixtures :
        /\ 1 <= patched_fixtures[id].start_address
        /\ patched_fixtures[id].start_address + TotalChannels(patched_fixtures[id]) - 1 <= 512

\* A fixture ends exactly at 512 and a request running past 512 was refused.
C2_Witness ==
    /\ last_call.outcome = "exceeds_512"
    /\ \E id \in DOMAIN patched_fixtures :
          EndAddress(patched_fixtures[id]) = 512 /\ TotalChannels(patched_fixtures[id]) = 3

\* The end address of a patch request, when its definition resolves.
RequestEnd(ident, a) ==
    a + DefinitionAt(ResolvedKeys[ident]).total_channels - 1

\* C3: a patch request whose definition resolves and whose end address is <= 512
\* ends in the address-conflict outcome exactly when some live instance other has
\* startAddress <= other.end and end >= other.start.
C3_ConflictExactly ==
    [][(/\ last_call'.op = "add_fixture_to_patch"
        /\ ResolvedKeys[last_call'.ident] # "None"
        /\ RequestEnd(last_call'.ident, last_call'.arg) <= 512)
       => ((last_call'.outcome = "address_conflict")
           <=> \E other \in DOMAIN patched_fixtures :
                  /\ last_call'.arg <= EndAddress(patched_fixtures[other])
                  /\ RequestEnd(last_call'.ident, last_call'.arg)
                        >= patched_fixtures[other].start_address)]_vars

\* [1,4] and [5,7] are both live, and a request has been refused for a conflict.
C3_Witness ==
    /\ last_call.outcome = "address_conflict"
    /\ \E a \in DOMAIN patched_fixtures, b \in DOMAIN patched_fixtures :
          /\ AddressRange(patched_fixtures[a]) = 1..4
          /\ AddressRange(patched_fixtures[b]) = 5..7

\* C4: a patch request that fails for any reason leaves the set of live fixtures
\* and every live fixture's address and channel values as they were.
C4_FailedPatchChangesNothing ==
    [][(last_call'.op = "add_fixture_to_patch" /\ last_call'.outcome # "patched")
       => /\ patched_fixtures' = patched_fixtures
          /\ \A id \in DOMAIN patched_fixtures : ChannelValues(id)' = ChannelValues(id)]_vars

\* A request failed inside the constructor while a fixture with edited values
\* was live.
C4_Witness ==
    /\ last_call.op = "add_fixture_to_patch"
    /\ last_call.outcome = "value_error"
    /\ \E id \in DOMAIN patched_fixtures :
          TotalChannels(patched_fixtures[id]) > 0 /\ At(ChannelValues(id), 0) = 200

(***************************************************************************)
(* Properties of the scene store (checked under SpecScene).                 *)
(***************************************************************************)
\* The byte values a scene holds for each fixture id.
SceneValues(s) ==
    [id \in DOMAIN scenes[s].fixture_states |-> heap[scenes[s].fixture_states[id]]]

\* C5: applying a scene restores every fixture that is still live to exactly the
\* channel values it had at the moment of capture, also when the channels were
\* changed between capture and apply.
C5_ApplyRestoresCapture ==
    [][last_call'.op = "apply_scene"
       => \A id \in DOMAIN patched_fixtures' \cap DOMAIN captured[last_call'.arg] :
             ChannelValues(id)' = captured[last_call'.arg][id]]_vars

\* C6: the values an existing Scene holds are not changed by any later operation.
C6_SceneImmutable ==
    [][\A s \in DOMAIN scenes : SceneValues(s)' = SceneValues(s)]_vars

\* C7: apply(scene) leaves the set of live fixtures, their definitions and
\* addresses, the scenes, and the values of every live fixture absent from the
\* scene unchanged; ids of the scene that are not live are skipped.
C7_ApplyFrame ==
    [][last_call'.op = "apply_scene"
       => /\ DOMAIN patched_fixtures' = DOMAIN patched_fixtures
          /\ last_call'.outcome = "ok"
          /\ scenes' = scenes
          /\ \A id \in DOMAIN patched_fixtures :
                /\ patched_fixtures'[id].start_address = patched_fixtures[id].start_address
                /\ patched_fixtures'[id].definition = patched_fixtures[id].definition
                /\ id \notin DOMAIN scenes[last_call'.arg].fixture_states
                     => ChannelValues(id)' = ChannelValues(id)]_vars

\* A scene was applied that names a fixture no longer patched, while a live
\* fixture whose values differ from that scene's is absent from it.
C7_Witness ==
    /\ last_call.op = "apply_scene"
    /\ LET fixture_states == scenes[last_call.arg].fixture_states
       IN  /\ \E id \in DOMAIN fixture_states : id \notin DOMAIN patched_fixtures
           /\ \E id \in DOMAIN patched_fixtures :
                 /\ id \notin DOMAIN fixture_states
                 /\ \A k \in DOMAIN fixture_states :
                       ChannelValues(id) # heap[fixture_states[k]]

(***************************************************************************)
(* Properties of the engine (checked under SpecEngine).                     *)
(***************************************************************************)
AllZero(bytes) == \A k \in DOMAIN bytes : bytes[k] = 0

\* C8: after blackout() returns every one of the 512 channels reads 0, and, with
\* no other write in between, the next frame the send loop transmits after
\* blackout() returned has an all-zero data section.
C8_BlackoutThenZeroFrame ==
    /\ blackout_fresh => \A c \in 1..512 : get_channel(c) = 0
    /\ frame_follows_blackout => AllZero(DataSection(wire))

\* C9: a set_channel or set_channels call that fails with ValueError leaves all
\* 512 channels of the universe buffer as they were before the call.
C9_FailedSetChangesNothing ==
    [][(/\ last_call'.op \in {"set_channel", "set_channels"}
        /\ last_call'.outcome = "ValueError"
        /\ last_call' # last_call)
       => dmx_values' = dmx_values]_vars

(***************************************************************************)
(* Properties of concurrent set_channel calls (checked under SpecConc).     *)
(***************************************************************************)
AllCompleted == \A t \in Callers : callers[t].pc = "idle"

\* C10: once all concurrent set_channel calls have completed, each channel holds
\* the value of the call that wrote it last, and a channel no call wrote still
\* holds its initial 0.
C10_LastWriterWins ==
    AllCompleted =>
        \A c \in 1..512 :
            get_channel(c) = IF c \in DOMAIN last_written THEN last_written[c] ELSE 0

\* Two threads have each completed a call on channel 1 with different values, and
\* a third call wrote channel 512.
C10_Witness ==
    /\ AllCompleted
    /\ \A t \in Callers : callers[t].outcome = "ok"
    /\ \E t, u \in Callers :
          /\ callers[t].channel = 1 /\ callers[u].channel = 1
          /\ callers[t].value = 7 /\ callers[u].value = 9
    /\ get_channel(1) = 9
    /\ get_channel(512) = 7
    /\ get_channel(2) = 0

(***************************************************************************)
(* Properties of the push to the engine (checked under SpecPush).           *)
(***************************************************************************)
\* C11: every snapshot the send loop takes is the whole universe buffer as it
\* was before or after a push of apply_patch_to_dmx_controller, never a buffer
\* in which only some channels of the push are written.
C11_SnapshotIsWhole ==
    loop_pc = "fill" => temp_dmx_values_copy \in whole_states

\* The loop took its snapshot while a push was waiting for the lock or had just
\* released it, after a push that changed both channels of the fixture.
C11_Witness ==
    /\ loop_pc = "fill"
    /\ At(temp_dmx_values_copy, 0) = 200
    /\ At(temp_dmx_values_copy, 1) = 200
    /\ pusher.pc = "acquire"
    /\ Cardinality(whole_states) >= 2

(***************************************************************************)
(* Properties of concurrent capture, tick and edit (checked under SpecTick). *)
(***************************************************************************)
\* C12: the 512 bytes apply_patch_to_dmx_controller hands to the engine equal
\* the patch state as it was at one single instant between the beginning and
\* the end of their composition, whatever the other threads did meanwhile.
C12_CompositeIsOneInstant ==
    pusher.pc = "acquire" => pusher.desired_dmx_state \in instants

(***************************************************************************)
(* Properties of the life of the send loop (checked under SpecLife and      *)
(* SpecLifeFair).                                                           *)
(***************************************************************************)
\* C13: for one engine, at most one thread of the send loop is alive at any
\* time, across start_dmx_output, stop_dmx_output (its join timing out or not),
\* the loop stopping itself on a device error, and close.
C13_AtMostOneLoop == Cardinality(AliveLoops) <= 1

\* stop_dmx_output has returned from a call made on a running engine.
StopReturned ==
    /\ last_call.op = "stop_dmx_output"
    /\ last_call.outcome \in {"joined", "timeout"}

\* C20: stop_dmx_output on a running engine returns with the flag false, whether
\* the join ended or timed out, and, unless a start follows, every thread of the
\* loop eventually ends.
C20_StopThenLoopEnds ==
    /\ [](StopReturned => ~is_running /\ dmx_thread = 0)
    /\ StopReturned ~> (AliveLoops = {} \/ is_running)

\* stop_dmx_output returned after its join timed out: the thread is still inside
\* the loop.
C20_Witness ==
    /\ last_call.op = "stop_dmx_output"
    /\ last_call.outcome = "timeout"
    /\ \E t \in AliveLoops : loops[t].pc \in {"snapshot", "fill", "send", "sleep"}

(***************************************************************************)
(* Properties of the chaser (checked under SpecChaser and SpecChaserFair).  *)
(***************************************************************************)
\* C14: start() on a chaser that is Running creates no task: at any time, across
\* any sequence of start() and stop() calls, at most one thread of the chaser
\* is alive.
C14_AtMostOneTask == Cardinality(AliveTasks) <= 1

\* start() was called on a Running chaser that had been stopped and started
\* again before: its second thread is the only one alive.
C14_Witness ==
    /\ last_call = Call("Chaser.start", "no-op", "", 0)
    /\ Len(chaser_tasks) = 2
    /\ AliveTasks = {2}

\* C15: once the thread started by start() on a chaser with an empty scene list
\* has exited, the chaser is Idle (flag false, no thread) without a stop().
C15_EmptyListBackToIdle ==
    (chaser.scene_ids = << >> /\ chaser_tasks # << >> /\ AliveTasks = {})
        => (~chaser.is_running /\ chaser.thread = 0)

\* The chaser is Idle: flag false, no thread held, no thread alive.
IdleChaser == ~chaser.is_running /\ chaser.thread = 0 /\ AliveTasks = {}

\* C16: stop() returns, and with the chaser Idle; from then on, until a start(),
\* no scene is applied and nothing is pushed to the engine; stop() on an Idle
\* chaser (stopped before, or never started) changes nothing.
C16_StopReturnsIdle ==
    /\ [](chaser_log.stopped => IdleChaser)
    /\ [][(IdleChaser /\ chaser_log'.stopped) =>
            /\ chaser' = chaser
            /\ UNCHANGED <<chaser_tasks, patched_fixtures, dmx_values>>]_vars
    /\ (chaser_caller = "join") ~> (chaser_caller = "idle")

\* stop() has returned from its join on a chaser that had applied its first
\* scene and pushed an edited value to the engine.
C16_Witness ==
    /\ chaser_log.stopped
    /\ Len(chaser_tasks) = 1
    /\ chaser.scene_ids # << >>
    /\ chaser.current_step = 1
    /\ At(dmx_values, 0) = 200

\* C17: the k-th step after a start() (k = 0, 1, ...) applies the scene at index
\* k mod N of the scene list, for every start(), one after a stop() included.
C17_StepAppliesIndexKModN == chaser_log.applied = chaser_log.due

(***************************************************************************)
(* Properties of the send loop after a device error (checked under          *)
(* SpecEngineFair and SpecDegraded).                                        *)
(***************************************************************************)
\* The thread of the send loop has left the while loop: in these behaviours,
\* because send_dmx raised.
LoopStopped == loop_pc \in {"final", "done"}

\* C18: when send_dmx fails inside the loop, is_running is False from then on,
\* the loop never builds or sends another frame from the universe buffer, its
\* only step is the one all-zero frame of the final section (sent, or its error
\* swallowed), and the thread ends.
C18_FailureThenOneFailsafe ==
    /\ [](LoopStopped => ~is_running)
    /\ [][(LoopStopped /\ <<loop_pc, dmx_buffer, wire>>' # <<loop_pc, dmx_buffer, wire>>) =>
            /\ loop_pc = "final" /\ loop_pc' = "done"
            /\ dmx_buffer' = InitialDmxBuffer
            /\ wire' \in {wire, InitialDmxBuffer}]_vars
    /\ (loop_pc = "final") ~> (loop_pc = "done")

\* The loop has ended after a frame built from a universe holding 7 on channel 1
\* failed; the final section cleared the frame buffer and its frame went out.
C18_Witness ==
    /\ loop_pc = "done"
    /\ ~is_running
    /\ At(temp_dmx_values_copy, 0) = 7
    /\ At(dmx_values, 0) = 7
    /\ wire = InitialDmxBuffer

\* C19: an error of the device in the send loop reaches no foreground caller:
\* once the loop has stopped, is_running reads False, and set_channel,
\* set_channels, get_channel, blackout and apply_patch_to_dmx_controller still
\* return normally and the universe buffer holds what they wrote.
C19_DegradedStillWorks ==
    LoopStopped =>
        /\ ~is_running
        /\ \A c \in DegradedChannels, v \in DegradedValues :
              ENABLED (/\ set_channel(c, v)
                       /\ last_call'.outcome = "ok"
                       /\ get_channel(c)' = v)
        /\ \A vs \in DegradedValueLists :
              ENABLED (/\ set_channels(1, vs)
                       /\ last_call'.outcome = "ok"
                       /\ \A i \in 1..Len(vs) : get_channel(i)' = vs[i])
        /\ ENABLED (/\ blackout
                    /\ last_call'.outcome = "ok"
                    /\ dmx_values' = ZeroBytes(512))
        /\ ENABLED (/\ apply_patch_to_dmx_controller
                    /\ last_call'.outcome = "ok"
                    /\ dmx_values' = ComposedState(patched_fixtures, heap))

\* The loop has ended on a device error; afterwards the patch, with the fixture
\* edited to 200, was pushed and the universe buffer took the value.
C19_Witness ==
    /\ loop_pc = "done"
    /\ ~is_running
    /\ last_call = Call("apply_patch_to_dmx_controller", "ok", "", 0)
    /\ At(dmx_values, 0) = 200

(***************************************************************************)
(* Properties of close() (checked under SpecLife).                          *)
(***************************************************************************)
\* The step is one of the foreground thread inside close().
ClosingStep == stopper' # stopper /\ (stopper.closing \/ stopper'.closing)

\* C21: once close() has returned the engine is not running and holds no
\* device, for good; a further close() changes nothing of the engine (flag,
\* thread, sender, buffers) and ends normally.
C21_CloseIsIdempotent ==
    /\ [](dmx_sender = "None" => ~is_running)
    /\ [][dmx_sender = "None" => dmx_sender' = "None"]_vars
    /\ [][(dmx_sender = "None" /\ ClosingStep) =>
            /\ UNCHANGED <<is_running, dmx_thread, dmx_sender, loops, dmx_values,
                           dmx_buffer, wire>>
            /\ last_call'.outcome \in {"not_running", "ok"}]_vars

\* A second close() is under way on an engine that ran its loop and was closed:
\* its stop_dmx_output has returned and the sender is already None.
C21_Witness ==
    /\ stopper.pc = "close"
    /\ dmx_sender = "None"
    /\ ~is_running
    /\ Len(loops) >= 1

(***************************************************************************)
(* Properties of the composition of the universe (checked under             *)
(* SpecCompose).                                                            *)
(***************************************************************************)
\* The addresses covered by some live fixture.
CoveredAddresses == UNION {AddressRange(patched_fixtures[id]) : id \in DOMAIN patched_fixtures}

\* C22: when apply_patch_to_dmx_controller has returned, every address in the
\* range of a live fixture holds that fixture's channel value at offset
\* address - start_address, whichever fixture was visited first, and every
\* other address of 1..512 holds 0, whatever was there before.
C22_BufferIsComposition ==
    last_call.op = "apply_patch_to_dmx_controller" =>
        /\ \A id \in DOMAIN patched_fixtures :
              \A a \in AddressRange(patched_fixtures[id]) :
                  get_channel(a) = At(ChannelValues(id), a - patched_fixtures[id].start_address)
        /\ \A a \in (1..512) \ CoveredAddresses : get_channel(a) = 0

\* The patch was pushed after an unpatch: one of two fixtures is live, its
\* first channel edited to 200 and in the buffer, and channel 6, which no live
\* fixture covers, holds 0.
C22_Witness ==
    /\ last_call.op = "apply_patch_to_dmx_controller"
    /\ Len(heap) = 2
    /\ \E id \in DOMAIN patched_fixtures :
          /\ DOMAIN patched_fixtures = {id}
          /\ patched_fixtures[id].start_address = 1
          /\ At(ChannelValues(id), 0) = 200
    /\ get_channel(1) = 200
    /\ get_channel(6) = 0

\* The fixtures other than fixture_id are, after the step, the live fixtures,
\* each with the address and the channel values it had.
OthersKept(fixture_id) ==
    /\ DOMAIN patched_fixtures' = DOMAIN patched_fixtures \ {fixture_id}
    /\ \A other \in DOMAIN patched_fixtures' :
          /\ patched_fixtures'[other] = patched_fixtures[other]
          /\ ChannelValues(other)' = ChannelValues(other)

\* C23: remove_fixture_from_patch of a live id returns True, removes that
\* instance and no other, leaves every other fixture's address and values as
\* they were, and a request for the same definition at the same address is then
\* accepted; of an id that is not live it returns False and changes nothing.
C23_UnpatchRemovesExactlyOne ==
    \A fixture_id \in 1..MaxPatches :
        IF fixture_id \in DOMAIN patched_fixtures
        THEN ENABLED (/\ remove_fixture_from_patch(fixture_id)
                      /\ last_call'.outcome = "True"
                      /\ OthersKept(fixture_id)
                      /\ \A ident \in ComposeIdentifiers, a \in ComposeStartAddresses :
                            (/\ ResolvedKeys[ident] = patched_fixtures[fixture_id].definition
                             /\ a = patched_fixtures[fixture_id].start_address)
                                => PatchOutcome(ident, a)' = "patched")
        ELSE ENABLED (/\ remove_fixture_from_patch(fixture_id)
                      /\ last_call'.outcome = "False"
                      /\ UNCHANGED <<patched_fixtures, heap>>)

\* The first fixture was unpatched and a LED PAR was then patched at 1..4, a
\* range no fixture at 1 or 4 leaves free; an unpatch of the id that is gone
\* has just returned False.
C23_Witness ==
    /\ last_call = Call("remove_fixture_from_patch", "False", "", 0)
    /\ DOMAIN patched_fixtures = {2}
    /\ AddressRange(patched_fixtures[2]) = 1..4

\* The files of the directory that the loop has gone through.
FilesRead == 1..(loader.pos - 1)

\* C24: every fixture definition that load_definitions accepted has a channel
\* list of length total_channels when the list is not empty, and a positive
\* total_channels when the list is empty or the key is absent.
C24_ChannelCountAgrees ==
    loader.kind = "definitions" =>
        \A i \in loader.loaded :
            LET data == loader.directory[i]
            IN  IF Len(data.channels) > 0
                THEN Len(data.channels) = data.total_channels[1]
                ELSE data.total_channels[1] > 0

\* The record that is well formed in a directory of the given kind.
ValidFile == IF loader.kind = "definitions" THEN ValidDefinitionFile ELSE ValidSceneFile

\* C25: a malformed record ends the load of that record only: the load of a
\* catalog or of a scene set never leaves by an exception, and when it has
\* returned every valid record of the directory is loaded.
C25_MalformedAbortsOnlyItself ==
    /\ loader.status # "raised"
    /\ loader.status = "returned" =>
           \A i \in DOMAIN loader.directory :
               loader.directory[i] = ValidFile => i \in loader.loaded

\* The two forms of a capability descriptor: a value and no range field, or
\* both range fields and no value.
SingleValueForm(cap) == cap.value # << >> /\ cap.range_min = << >> /\ cap.range_max = << >>

RangeForm(cap) == cap.value = << >> /\ cap.range_min # << >> /\ cap.range_max # << >>

\* C30: a file whose only capability descriptor has a description is accepted
\* exactly when the descriptor has one of the two forms, and is otherwise
\* rejected with an error.
C30_CapabilityExactlyOneForm ==
    loader.kind = "definitions" =>
        \A i \in FilesRead : \A cap \in DescribedCapabilities :
            loader.directory[i] = [ValidDefinitionFile EXCEPT !.channels = <<ChannelOf(<<cap>>)>>] =>
                /\ i \in loader.loaded <=> (SingleValueForm(cap) \/ RangeForm(cap))
                /\ i \in loader.errors <=> ~(SingleValueForm(cap) \/ RangeForm(cap))

\* The load returned: the file with a range descriptor in the middle of the
\* directory was accepted together with its neighbours.
C30_Witness ==
    /\ loader.kind = "definitions"
    /\ loader.status = "returned"
    /\ loader.loaded = 1..MaxFiles
    /\ \E cap \in DescribedCapabilities :
          /\ RangeForm(cap)
          /\ loader.directory[2] = [ValidDefinitionFile EXCEPT !.channels = <<ChannelOf(<<cap>>)>>]

\* Thread t of the send loop sends the frame of its tick in this step.
TickFrameSent(t) ==
    /\ t \in DOMAIN loops
    /\ loops[t].pc = "send"
    /\ loops'[t].pc = "sleep"

\* C26: the data section of the frame that a tick of the send loop transmits
\* is the snapshot of the universe that this tick took: not a mix of two
\* buffer states and not the snapshot of another tick.
C26_FrameIsTickSnapshot ==
    [][\A t \in 1..MaxLoops :
           TickFrameSent(t) => DataSection(wire') = loops[t].temp_dmx_values_copy]_vars

\* Thread t of the chaser runs the body of one iteration in this step.
IterationDone(t) ==
    /\ t \in DOMAIN chaser_tasks
    /\ chaser_tasks[t] = "step"
    /\ chaser_tasks'[t] = "sleep"

\* The engine holds, at the addresses of every live fixture of the scene, the
\* bytes the scene has for it, and the fixture holds the scene's bytearray.
SceneOnPatchAndEngine(scene) ==
    \A id \in DOMAIN scene.fixture_states \cap DOMAIN patched_fixtures :
        /\ patched_fixtures'[id].channel_values = scene.fixture_states[id]
        /\ \A k \in DOMAIN heap[scene.fixture_states[id]] :
               dmx_values'[patched_fixtures[id].start_address + k - 1] =
                   heap[scene.fixture_states[id]][k]

\* C27: an iteration of the chaser applies the scene at current_step to the
\* patch and the push that follows carries it to the engine; current_step then
\* is one more modulo the length of the list.  When the id at current_step is
\* not in the store the patch and the engine stay as they were and current_step
\* advances the same way.
C27_IterationAppliesThenAdvances ==
    [][\A t \in 1..MaxStarts :
           IterationDone(t) =>
               /\ chaser'.current_step = (chaser.current_step + 1) % Len(chaser.scene_ids)
               /\ IF chaser.scene_ids[chaser.current_step + 1] \in DOMAIN scenes
                  THEN SceneOnPatchAndEngine(scenes[chaser.scene_ids[chaser.current_step + 1]])
                  ELSE UNCHANGED <<patched_fixtures, heap, dmx_values>>]_vars

\* The chaser applied the stored scene at index 0 and then passed the stale id
\* at index 1: the engine still shows the scene and the index is back at 0.
C27_Witness ==
    /\ chaser.scene_ids = <<1, StaleSceneId>>
    /\ chaser_log.applied = 1
    /\ chaser.current_step = 0
    /\ patched_fixtures[1].channel_values = 2
    /\ dmx_values[1] = 50

\* C28: when the adapter could not be opened at construction, dmx_sender is
\* None and no thread of the send loop is ever created.
C28_NoAdapterNoLoop ==
    ~dev.is_open => (dmx_sender = "None" /\ loops = << >>)

\* The operation that send_dmx makes at position i of a call.
FrameShape(i, entry) ==
    CASE i = 1 -> entry = BaudrateSet(BREAK_BAUDRATE)
      [] i = 2 -> entry = Written(BREAK_BAUDRATE, <<0>>)
      [] i = 3 -> entry = BaudrateSet(250000)
      [] i = 4 -> /\ entry.op = "write"
                  /\ entry.baudrate = 250000
                  /\ Len(entry.data) = 513
                  /\ entry.data[1] = 0
                  /\ entry.data = wire
      [] OTHER -> FALSE

\* C29: a call of send_dmx sets the break baud rate, writes one zero byte,
\* sets 250000 baud and writes the 513 bytes of the frame buffer, in this
\* order and nothing else; a call that returned made all four.  The buffer
\* has 513 bytes and starts with the start code after any setter of the
\* sender, and no write of more than the break byte is made at the break rate.
C29_FrameShapeAndOrder ==
    /\ Len(dmx_buffer) = 513
    /\ dmx_buffer[1] = DMX_START_CODE
    /\ \A i \in DOMAIN dev.log : FrameShape(i, dev.log[i])
    /\ (dev.pc = "idle" /\ last_call = Call("send_dmx", "sent", "", 0)) => Len(dev.log) = 4
    /\ \A i \in DOMAIN dev.log :
           (dev.log[i].op = "write" /\ dev.log[i].baudrate = BREAK_BAUDRATE)
               => dev.log[i].data = <<0>>

\* send_dmx returned after the setters had stored 7 at channels 1 and 512: the
\* frame on the wire carries both behind the start code.
C29_Witness ==
    /\ last_call = Call("send_dmx", "sent", "", 0)
    /\ Len(dev.log) = 4
    /\ wire[1] = DMX_START_CODE
    /\ wire[2] = 7
    /\ wire[513] = 7

(***************************************************************************)
(* Properties of the definition lookup (checked under SpecLookup).          *)
(***************************************************************************)
\* The keys of the definitions that stage n of the lookup matches.
StageMatches(n, identifier) ==
    CASE n = 1 -> {key \in DefinitionKeys : key = NormPath(identifier)}
      [] n = 2 -> {key \in DefinitionKeys :
                      key = NormPath(PathJoin(fixture_directory, identifier))}
      [] n = 3 -> {key \in DefinitionKeys :
                      Lower(DefinitionAt(key).name) = Lower(identifier)}
      [] n = 4 -> {key \in DefinitionKeys :
                      Lower(DefinitionAt(key).manufacturer \o " - " \o DefinitionAt(key).name)
                          = Lower(identifier)}

\* C31: the lookup returns a definition of the first of the four stages (path
\* key, path under the catalog directory, name, "manufacturer - name") that
\* matches anything, and None only when no stage matches.
C31_FirstMatchingStageWins ==
    last_call.op = "get_definition_by_identity" =>
        LET matching == {n \in 1..4 : StageMatches(n, last_call.ident) # {}}
        IN  IF matching = {} THEN last_call.outcome = "None"
            ELSE \E n \in matching :
                    /\ \A m \in matching : n <= m
                    /\ last_call.outcome \in StageMatches(n, last_call.ident)

\* "acme - spot" is the name of one definition and the composite of another:
\* the lookup returned the one matched by name.
C31_Witness ==
    /\ last_call = Call("get_definition_by_identity", "/fx/alias.json", "acme - spot", 0)
    /\ StageMatches(3, "acme - spot") = {"/fx/alias.json"}
    /\ StageMatches(4, "acme - spot") = {"/fx/spot2.json"}

(***************************************************************************)
(* Properties of the fixtures' byte arrays (checked under SpecArrays).      *)
(***************************************************************************)
\* C32: the byte array of every live fixture has as many items as its
\* definition has channels, and each item is within 0..255.
C32_ArrayFitsDefinition ==
    \A id \in DOMAIN patched_fixtures :
        /\ Len(ChannelValues(id)) = TotalChannels(patched_fixtures[id])
        /\ \A k \in DOMAIN ChannelValues(id) : ChannelValues(id)[k] \in 0..DMX_MAX_VALUE

\* A scene captured over a Spot and a LED PAR was applied after an edit of
\* each: both fixtures are live, with arrays of 2 and of 4 items.
C32_Witness ==
    /\ last_call.op = "apply_scene"
    /\ DOMAIN patched_fixtures = {1, 2}
    /\ DOMAIN scenes[1].fixture_states = {1, 2}
    /\ {Len(ChannelValues(1)), Len(ChannelValues(2))} = {2, 4}
    /\ ChannelValues(1)[1] = 200
    /\ ChannelValues(2)[1] = 200

\* The fixture that the last add_fixture_to_patch registered: the one holding
\* the newest bytearray.
NewestFixture == CHOOSE id \in DOMAIN patched_fixtures :
                     patched_fixtures[id].channel_values = Len(heap)

\* C33: right after a successful patch the new fixture holds, at the
\* dmx_channel_offset of every channel of its definition, that channel's
\* default_value, and only zeros when the definition lists no channel.
C33_SeededAtChannelOffsets ==
    (last_call.op = "add_fixture_to_patch" /\ last_call.outcome = "patched") =>
        LET definition == DefinitionAt(patched_fixtures[NewestFixture].definition)
        IN  /\ \A c \in DOMAIN definition.channels :
                   At(ChannelValues(NewestFixture), definition.channels[c].dmx_channel_offset)
                       = definition.channels[c].default_value
            /\ definition.channels = << >> =>
                   \A k \in DOMAIN ChannelValues(NewestFixture) :
                       ChannelValues(NewestFixture)[k] = 0

\* The document saved for every scene reads back to the id, the name and the
\* fixture states the scene had when it was captured.
SavedScenesRoundTrip ==
    \A s \in DOMAIN scenes :
        /\ s \in DOMAIN scene_files
        /\ SceneFromDict(scene_files[s]) =
               [id |-> s, name |-> SceneName(s), fixture_states |-> captured[s]]

\* A step of create_scene stores a scene keyed by exactly the live fixtures.
CaptureKeysAreLiveIds ==
    (last_call'.op = "create_scene" /\ DOMAIN scenes' # DOMAIN scenes)
        => \A s \in DOMAIN scenes' \ DOMAIN scenes :
               DOMAIN scenes'[s].fixture_states = DOMAIN patched_fixtures

\* C34: create_scene produces a scene whose keys are exactly the ids of the
\* fixtures live at capture time, and the document it saves round-trips:
\* from_dict of the saved to_dict has the scene's id, its name and the map
\* from fixture id to the byte values the scene had when captured.
C34_CaptureRoundTrips == []SavedScenesRoundTrip /\ [][CaptureKeysAreLiveIds]_vars

\* A scene captured from two live fixtures, one of them edited since: the
\* saved document still reads back to the captured values.
C34_Witness ==
    \E s \in DOMAIN scenes :
        /\ Cardinality(DOMAIN captured[s]) = 2
        /\ s \in DOMAIN scene_files
        /\ \E id \in DOMAIN captured[s] :
               /\ id \in DOMAIN patched_fixtures
               /\ ChannelValues(id) # captured[s][id]
               /\ SceneFromDict(scene_files[s]).fixture_states[id] = captured[s][id]

\* The values whose way to the wire is followed.
FollowedValues == {0, 7}

\* The loop comes to send_dmx, and past a successful send_dmx, again and again
\* for as long as the engine is running.
FramesKeepComing ==
    /\ []<>(loop_pc = "send" \/ ~is_running)
    /\ []<>(loop_pc = "sleep" \/ ~is_running)

\* A value standing in the universe buffer is transmitted, unless it is
\* overwritten or the engine stops first.
WrittenValueIsSent ==
    \A c \in FollowedChannels, v \in FollowedValues :
        (is_running /\ dmx_values[c] = v)
            ~> \/ (wire # << >> /\ wire[c + 1] = v)
               \/ dmx_values[c] # v
               \/ ~is_running

\* C35: while the send loop runs and the device accepts every write, the loop
\* transmits frames again and again, so a value written into the universe
\* buffer and not overwritten afterwards is eventually transmitted.
C35_RunningLoopTransmits == FramesKeepComing /\ WrittenValueIsSent

\* The loop has just transmitted a frame carrying the value 7 that set_channel
\* wrote to channel 1, and is still running.
C35_Witness ==
    /\ is_running
    /\ loop_pc = "sleep"
    /\ dmx_values[1] = 7
    /\ wire # << >>
    /\ wire[2] = 7

\* C36: when threads each edit the patch and then call
\* apply_patch_to_dmx_controller, then once every call has returned the engine
\* buffer is the composition of the final patch state: a composition made
\* before another thread's edit does not overwrite that thread's newer push.
C36_LastPushIsFinalPatch ==
    (/\ pusher.pc = "idle"
     /\ last_call.op \in {"apply_patch_to_dmx_controller", "on_midi_message"})
        => dmx_values = ComposedState(patched_fixtures, heap)

\* Thread t of the send loop is the only one still alive, and stands before
\* the send_dmx of its final section.
LastThreadBeforeFinalSend(t) ==
    /\ t \in DOMAIN loops
    /\ loops[t].pc = "final_send"
    /\ AliveLoops = {t}

\* The frame that the last thread of the loop is about to transmit through an
\* open sender has an all-zero data section.
FinalFrameIsZero ==
    \A t \in 1..MaxLoops :
        (LastThreadBeforeFinalSend(t) /\ dmx_sender = "open")
            => AllZero(DataSection(dmx_buffer))

\* The final section works on the frame buffer of the sender: what it
\* transmits is that buffer, and the universe buffer of the controller is as
\* it was.
FinalSectionKeepsUniverse ==
    \A t \in 1..MaxLoops :
        (/\ t \in DOMAIN loops
         /\ loops[t].pc \in {"final", "final_send"}
         /\ loops'[t].pc # loops[t].pc)
            => /\ dmx_values' = dmx_values
               /\ wire' \in {wire, dmx_buffer'}

C38_ConcurrentRequestsExclude ==
    \A a, b \in DOMAIN patched_fixtures :
        a # b => ~AddressConflict(patched_fixtures[a].start_address,
                                  EndAddress(patched_fixtures[a]), patched_fixtures[b])

\* A step in which blackout() clears a universe that was not freshly cleared.
BlackoutStep == ~blackout_fresh /\ blackout_fresh'

\* blackout() zeroes the universe buffer and nothing of the patch or the chaser.
BlackoutTouchesEngineOnly ==
    BlackoutStep => /\ dmx_values' = ZeroBytes(512)
                    /\ UNCHANGED <<patched_fixtures, heap, scenes, chaser, chaser_tasks>>

\* A step of the chaser that finds its scene pushes the patch as it then is.
ChaserStepPushesPatch ==
    \A t \in 1..MaxStarts :
        (IterationDone(t) /\ At(chaser.scene_ids, chaser.current_step) \in DOMAIN scenes)
            => dmx_values' = ComposedState(patched_fixtures', heap')

\* C39: the engine's blackout() changes only the universe buffer; the channel
\* values of the patched fixtures and the state of a running chaser stay as
\* they are, so the next apply_patch_to_dmx_controller, such as the next step
\* of the chaser, writes the patched values back into the buffer.
C39_BlackoutLeavesPatchAndChaser ==
    [][BlackoutTouchesEngineOnly /\ ChaserStepPushesPatch]_vars

\* blackout() was the last call, and a step of the running chaser has since
\* written the fixture's values back: channel 1 is lit again.
C39_Witness ==
    /\ last_call.op = "blackout"
    /\ ~blackout_fresh
    /\ chaser.is_running
    /\ dmx_values[1] # 0
    /\ dmx_values = ComposedState(patched_fixtures, heap)

====
